---- MODULE Spec2Model ----
(***************************************************************************)
(* A model of the zk light-client repository: the fixed-layout codecs and  *)
(* hashes of the core crate, the proof-of-work header validator, and the   *)
(* recursive BFT consensus program.                                        *)
(*                                                                         *)
(* Representation.  A byte is an integer 0..255 and a byte string is a     *)
(* sequence of bytes.  An unsigned integer of w bytes (u32, u64, U256) is  *)
(* the sequence of its w base-256 digits, most significant digit first, so *)
(* that every width of the source is kept; to_le_bytes and from_le_bytes   *)
(* reverse the digits.  SHA-256 is computed bit for bit.                   *)
(***************************************************************************)
EXTENDS Integers, Sequences, FiniteSets, Bags, TLC

\* ---------------------------------------------------------------------
\* Unsigned integers as digit sequences (most significant digit first)
\* ---------------------------------------------------------------------
Reverse(s) == [i \in 1..Len(s) |-> s[Len(s) + 1 - i]]

\* the w-digit numeral of a small natural n (n < 2^31)
Num(n, w) ==
  [i \in 1..w |-> IF w - i >= 4 THEN 0 ELSE (n \div (256 ^ (w - i))) % 256]

Zeros(w) == [i \in 1..w |-> 0]

ULt(a, b) == \E i \in 1..Len(a) : a[i] < b[i] /\ \A j \in 1..(i - 1) : a[j] = b[j]

ULe(a, b) == a = b \/ ULt(a, b)

\* the carry of a + b into digit i, i = 0 being the carry out
UAddCarry(a, b, i) ==
  \E j \in (i + 1)..Len(a) :
    /\ a[j] + b[j] >= 256
    /\ \A k \in (i + 1)..(j - 1) : a[k] + b[k] = 255

\* a + b modulo 256^Len(a), for numerals of the same length
UAddWrap(a, b) ==
  [i \in 1..Len(a) |-> (a[i] + b[i] + (IF UAddCarry(a, b, i) THEN 1 ELSE 0)) % 256]

\* x.to_le_bytes() and uN::from_le_bytes(b)
to_le_bytes(x) == Reverse(x)

from_le_bytes(b) == Reverse(b)

\* ---------------------------------------------------------------------
\* SHA-256 (FIPS 180-4) over byte sequences, as computed by the sha2 crate.
\* A 32-bit word is the pair <<high 16 bits, low 16 bits>>.
\* ---------------------------------------------------------------------
\* bitwise tables over byte pairs, entry 256 * a + b + 1 (tuples, built once)
Xor8Tab ==
  [k \in 1..65536 |->
     LET a == (k - 1) \div 256
         b == (k - 1) % 256
     IN  ((a + b) % 2)
         + 2 * (((a \div 2) + (b \div 2)) % 2)
         + 4 * (((a \div 4) + (b \div 4)) % 2)
         + 8 * (((a \div 8) + (b \div 8)) % 2)
         + 16 * (((a \div 16) + (b \div 16)) % 2)
         + 32 * (((a \div 32) + (b \div 32)) % 2)
         + 64 * (((a \div 64) + (b \div 64)) % 2)
         + 128 * (((a \div 128) + (b \div 128)) % 2)] \o <<>>

And8Tab ==
  [k \in 1..65536 |->
     LET a == (k - 1) \div 256
         b == (k - 1) % 256
     IN  ((a % 2) * (b % 2))
         + 2 * (((a \div 2) % 2) * ((b \div 2) % 2))
         + 4 * (((a \div 4) % 2) * ((b \div 4) % 2))
         + 8 * (((a \div 8) % 2) * ((b \div 8) % 2))
         + 16 * (((a \div 16) % 2) * ((b \div 16) % 2))
         + 32 * (((a \div 32) % 2) * ((b \div 32) % 2))
         + 64 * (((a \div 64) % 2) * ((b \div 64) % 2))
         + 128 * ((a \div 128) * (b \div 128))] \o <<>>

Xor16(a, b) ==
  256 * Xor8Tab[256 * (a \div 256) + (b \div 256) + 1]
  + Xor8Tab[256 * (a % 256) + (b % 256) + 1]

And16(a, b) ==
  256 * And8Tab[256 * (a \div 256) + (b \div 256) + 1]
  + And8Tab[256 * (a % 256) + (b % 256) + 1]

Xor32(x, y) == <<Xor16(x[1], y[1]), Xor16(x[2], y[2])>>

And32(x, y) == <<And16(x[1], y[1]), And16(x[2], y[2])>>

Not32(x) == <<65535 - x[1], 65535 - x[2]>>

Add32(x, y) ==
  LET lo == x[2] + y[2]
      hi == x[1] + y[1] + (lo \div 65536)
  IN  <<hi % 65536, lo % 65536>>

Rotr16(x, n) ==
  LET p == 2 ^ n
      q == 2 ^ (16 - n)
  IN  <<(x[1] \div p) + (x[2] % p) * q, (x[2] \div p) + (x[1] % p) * q>>

Rotr32(x, n) == IF n < 16 THEN Rotr16(x, n) ELSE Rotr16(<<x[2], x[1]>>, n - 16)

Shr32(x, n) ==
  LET p == 2 ^ n
      q == 2 ^ (16 - n)
  IN  <<x[1] \div p, (x[2] \div p) + (x[1] % p) * q>>

SHA256_K ==
  << <<17034, 12184>>, <<28983, 17553>>, <<46528, 64463>>, <<59829, 56229>>,
     <<14678, 49755>>, <<23025, 4593>>, <<37439, 33444>>, <<43804, 24277>>,
     <<55303, 43672>>, <<4739, 23297>>, <<9265, 34238>>, <<21772, 32195>>,
     <<29374, 23924>>, <<32990, 45566>>, <<39900, 1703>>, <<49563, 61812>>,
     <<58523, 27073>>, <<61374, 18310>>, <<4033, 40390>>, <<9228, 41420>>,
     <<11753, 11375>>, <<19060, 33962>>, <<23728, 43484>>, <<30457, 35034>>,
     <<38974, 20818>>, <<43057, 50797>>, <<45059, 10184>>, <<48985, 32711>>,
     <<50912, 3059>>, <<54695, 37191>>, <<1738, 25425>>, <<5161, 10599>>,
     <<10167, 2693>>, <<11803, 8504>>, <<19756, 28156>>, <<21304, 3347>>,
     <<25866, 29524>>, <<30314, 2747>>, <<33218, 51502>>, <<37490, 11397>>,
     <<41663, 59553>>, <<43034, 26187>>, <<49739, 35696>>, <<51052, 20899>>,
     <<53650, 59417>>, <<54937, 1572>>, <<62478, 13701>>, <<4202, 41072>>,
     <<6564, 49430>>, <<7735, 27656>>, <<10056, 30540>>, <<13488, 48309>>,
     <<14620, 3251>>, <<20184, 43594>>, <<23452, 51791>>, <<26670, 28659>>,
     <<29839, 33518>>, <<30885, 25455>>, <<33992, 30740>>, <<36039, 520>>,
     <<37054, 65530>>, <<42064, 27883>>, <<48889, 41975>>, <<50801, 30962>> >>

SHA256_H0 ==
  << <<27145, 58983>>, <<47975, 44677>>, <<15470, 62322>>, <<42319, 62778>>,
     <<20750, 21119>>, <<39685, 26764>>, <<8067, 55723>>, <<23520, 52505>> >>

BigSigma0(x) == Xor32(Xor32(Rotr32(x, 2), Rotr32(x, 13)), Rotr32(x, 22))

BigSigma1(x) == Xor32(Xor32(Rotr32(x, 6), Rotr32(x, 11)), Rotr32(x, 25))

SmallSigma0(x) == Xor32(Xor32(Rotr32(x, 7), Rotr32(x, 18)), Shr32(x, 3))

SmallSigma1(x) == Xor32(Xor32(Rotr32(x, 17), Rotr32(x, 19)), Shr32(x, 10))

Ch(x, y, z) == Xor32(And32(x, y), And32(Not32(x), z))

Maj(x, y, z) == Xor32(Xor32(And32(x, y), And32(x, z)), And32(y, z))

\* the padded message: 0x80, zeros to 56 mod 64, the bit length in 8 bytes (BE)
Sha256Pad(msg) ==
  LET l == Len(msg)
      z == (55 - (l % 64) + 64) % 64
      bits == 8 * l
  IN  msg \o <<128>> \o [i \in 1..z |-> 0]
          \o <<0, 0, 0, 0, (bits \div 16777216) % 256, (bits \div 65536) % 256,
               (bits \div 256) % 256, bits % 256>>

\* the 16 big-endian words of block b (0-based) of the padded message
BlockWords(p, b) ==
  [i \in 1..16 |->
     LET o == 64 * b + 4 * (i - 1)
     IN  <<256 * p[o + 1] + p[o + 2], 256 * p[o + 3] + p[o + 4]>>]

\* message schedule: W[17..64] appended one word at a time
RECURSIVE Schedule(_)
Schedule(w) ==
  LET t == Len(w) + 1
  IN  IF t > 64 THEN w
      ELSE Schedule(Append(w, Add32(Add32(SmallSigma1(w[t - 2]), w[t - 7]),
                                    Add32(SmallSigma0(w[t - 15]), w[t - 16]))))

\* the 64 rounds; s = <<a, b, c, d, e, f, g, h, t>> with t the next round
RECURSIVE Rounds(_, _)
Rounds(s, w) ==
  IF s[9] > 64 THEN s
  ELSE LET t1 == Add32(Add32(Add32(s[8], BigSigma1(s[5])), Ch(s[5], s[6], s[7])),
                       Add32(SHA256_K[s[9]], w[s[9]]))
           t2 == Add32(BigSigma0(s[1]), Maj(s[1], s[2], s[3]))
       IN  Rounds(<<Add32(t1, t2), s[1], s[2], s[3], Add32(s[4], t1), s[5], s[6], s[7],
                    s[9] + 1>>, w)

Compress(h, words) ==
  LET s == Rounds(h \o <<1>>, Schedule(words))
  IN  [i \in 1..8 |-> Add32(h[i], s[i])]

RECURSIVE Sha256Blocks(_, _, _)
Sha256Blocks(h, p, b) ==
  IF Len(h) = 8 /\ 64 * b >= Len(p) THEN h
  ELSE Sha256Blocks(Compress(h, BlockWords(p, b)), p, b + 1)

\* sha256_hash: the 32-byte digest of a byte sequence
sha256_hash(bytes) ==
  LET h == Sha256Blocks(SHA256_H0, Sha256Pad(bytes), 0)
  IN  [i \in 1..32 |->
         LET w == h[(i - 1) \div 4 + 1]
             k == (i - 1) % 4
         IN  IF k = 0 THEN w[1] \div 256
             ELSE IF k = 1 THEN w[1] % 256
             ELSE IF k = 2 THEN w[2] \div 256
             ELSE w[2] % 256]

\* ---------------------------------------------------------------------
\* core/src/babylon.rs: TendermintOutput and its fixed layout
\* ---------------------------------------------------------------------
\* Rust data[a..b]: bytes a (0-based) up to b exclusive
Slice(data, a, b) == SubSeq(data, a + 1, b)

TendermintOutput(th, gh, thh, ghh, cbpi, ah) ==
  [trusted_height |-> th, target_height |-> gh, trusted_header_hash |-> thh,
   target_header_hash |-> ghh, compressed_block_public_input |-> cbpi, app_hash |-> ah]

\* #[derive(Default)]: every field zero
TendermintOutput_default ==
  TendermintOutput(Zeros(8), Zeros(8), Zeros(32), Zeros(32), Zeros(32), Zeros(32))

TendermintOutput_BYTE_SIZE == 8 + 8 + 32 + 32 + 32 + 32

\* mutant: the heights written most significant byte first
TendermintOutput_encode_be(self) ==
  self.trusted_height \o self.target_height
    \o self.trusted_header_hash \o self.target_header_hash
    \o self.compressed_block_public_input \o self.app_hash

TendermintOutput_encode(self) ==
  to_le_bytes(self.trusted_height) \o to_le_bytes(self.target_height)
    \o self.trusted_header_hash \o self.target_header_hash
    \o self.compressed_block_public_input \o self.app_hash

\* the slices decode takes once the length check has passed
TendermintOutput_ranges ==
  <<<<0, 8>>, <<8, 16>>, <<16, 48>>, <<48, 80>>, <<80, 112>>, <<112, 144>>>>

\* mutant: the length check only rejects buffers that are too short
TendermintOutput_decode_atleast(data) ==
  IF Len(data) < 8 + 8 + 32 + 32 + 32 + 32
    THEN [kind |-> "Err", error |-> "InvalidData", value |-> <<>>]
  ELSE [kind |-> "Ok", error |-> "",
        value |-> << TendermintOutput(from_le_bytes(Slice(data, 0, 8)),
                                      from_le_bytes(Slice(data, 8, 16)),
                                      Slice(data, 16, 48), Slice(data, 48, 80),
                                      Slice(data, 80, 112), Slice(data, 112, 144)) >>]

\* std::io::Result<Self>: kind Ok with the record in value, kind Err with the
\* error, or kind Panic when a slice index is out of range
TendermintOutput_decode(data) ==
  IF Len(data) # TendermintOutput_BYTE_SIZE
    THEN [kind |-> "Err", error |-> "InvalidData", value |-> <<>>]
  ELSE IF \E k \in 1..Len(TendermintOutput_ranges) :
            TendermintOutput_ranges[k][2] > Len(data)
    THEN [kind |-> "Panic", error |-> "index out of range", value |-> <<>>]
  ELSE [kind |-> "Ok", error |-> "",
        value |-> << TendermintOutput(from_le_bytes(Slice(data, 0, 8)),
                                      from_le_bytes(Slice(data, 8, 16)),
                                      Slice(data, 16, 48), Slice(data, 48, 80),
                                      Slice(data, 80, 112), Slice(data, 112, 144)) >>]

TendermintOutput_compute_hash(self) == sha256_hash(TendermintOutput_encode(self))

\* ---------------------------------------------------------------------
\* core/src/babylon.rs: VerifierPublicInput, ConsensusWitness, ConsensusInput
\* ---------------------------------------------------------------------
VerifierPublicInput(pc, ah, gh, ghh) ==
  [parent_compressed_block_public_input |-> pc, app_hash |-> ah,
   target_height |-> gh, target_header_hash |-> ghh]

VerifierPublicInput_BYTE_SIZE == 32 + 8 + 32

\* the buffer compute_hash fills and hands to sha256_hash
VerifierPublicInput_buf(self) ==
  self.parent_compressed_block_public_input \o self.app_hash
    \o to_le_bytes(self.target_height) \o self.target_header_hash

VerifierPublicInput_compute_hash(self) == sha256_hash(VerifierPublicInput_buf(self))

\* tendermint LightBlock, reduced to what the program reads: the header's
\* height, hash, app_hash, declared next_validators_hash and time, the hash
\* of the next validator set it carries, and whether its commit is signed by
\* more than two thirds of the voting power ("valid"). The time is the
\* number of seconds since 0001-01-01T00:00:00Z, five digits.
LightBlock(h, hh, ah, nvh, nvs, sig, time) ==
  [height |-> h, hash |-> hh, app_hash |-> ah, next_validators_hash |-> nvh,
   next_validators |-> nvs, commit |-> sig, time |-> time]

\* the last second a tendermint Time holds, 9999-12-31T23:59:59Z
MaxTime == <<73, 119, 134, 56, 127>>

\* Time + Duration of whole seconds: Err when the sum leaves the range
Time_add(time, duration) ==
  IF UAddCarry(time, duration, 0) \/ ULt(MaxTime, UAddWrap(time, duration))
    THEN [ok |-> FALSE, time |-> <<>>]
  ELSE [ok |-> TRUE, time |-> UAddWrap(time, duration)]

ConsensusInput(ok, idx, vk, ppi, cpi, tb, ub) ==
  [raw_ok |-> ok, proving_block_index |-> idx, circuit_vkey_u32_hash |-> vk,
   parent_public_input |-> ppi, current_public_input |-> cpi,
   witness |-> [trusted_block |-> tb, untrusted_block |-> ub]]

\* ---------------------------------------------------------------------
\* programs/baby_consensus_program/src/main.rs
\* ---------------------------------------------------------------------
\* the Options of verify_header: threshold 2/3, a trusting period of 14
\* days (1209600 s), no clock drift
VerifyOptions ==
  [trust_threshold |-> <<2, 3>>, trusting_period |-> <<0, 0, 18, 117, 0>>,
   clock_drift |-> <<0, 0, 0, 0, 0>>]

\* ProdVerifier::verify_update_header at the time now: Invalid for a
\* trusted header outside the trusting period, an untrusted header not
\* before now + clock_drift, a time or a height not above the trusted one;
\* NotEnoughTrust for a commit without two thirds of the voting power
verify_update_header(untrusted, trusted, options, now) ==
  IF ~Time_add(trusted.time, options.trusting_period).ok THEN "Invalid"
  ELSE IF ~ULt(now, Time_add(trusted.time, options.trusting_period).time) THEN "Invalid"
  ELSE IF ~Time_add(now, options.clock_drift).ok THEN "Invalid"
  ELSE IF ~ULt(untrusted.time, Time_add(now, options.clock_drift).time) THEN "Invalid"
  ELSE IF ~ULt(trusted.time, untrusted.time) THEN "Invalid"
  ELSE IF ~ULt(trusted.height, untrusted.height) THEN "Invalid"
  ELSE IF untrusted.commit # "valid" THEN "NotEnoughTrust"
  ELSE "Success"

\* untrusted_block.time() + Duration::from_secs(20)
verify_time(untrusted_block) == Time_add(untrusted_block.time, <<0, 0, 0, 0, 20>>)

\* mutant: the verdict of verify_update_header is not looked at
verify_header_any_verdict(trusted_block, untrusted_block) ==
  IF trusted_block.next_validators # trusted_block.next_validators_hash
    THEN "assert_next_validators"
  ELSE IF ~verify_time(untrusted_block).ok
    THEN "verify_time.unwrap"
  ELSE "ok"

\* verify_header: "ok", or the place of the panic
verify_header(trusted_block, untrusted_block) ==
  IF trusted_block.next_validators # trusted_block.next_validators_hash
    THEN "assert_next_validators"
  ELSE IF ~verify_time(untrusted_block).ok
    THEN "verify_time.unwrap"
  ELSE IF verify_update_header(untrusted_block, trusted_block, VerifyOptions,
                               verify_time(untrusted_block).time) # "Success"
    THEN "verify_update_header"
  ELSE "ok"

\* the calls verify_header makes, in order, up to its return or panic
verify_header_events(trusted_block, untrusted_block) ==
  IF trusted_block.next_validators # trusted_block.next_validators_hash
    THEN <<"assert_next_validators">>
  ELSE IF ~verify_time(untrusted_block).ok
    THEN <<"assert_next_validators", "time_add">>
  ELSE <<"assert_next_validators", "time_add", "verify_update_header">>

\* the verdict on a pair whose verify_time is in range
HeaderVerdict(untrusted_block, trusted_block) ==
  verify_update_header(untrusted_block, trusted_block, VerifyOptions,
                       verify_time(untrusted_block).time)

\* sp1_zkvm::lib::verify::verify_sp1_proof against the proofs the backend
\* holds: some proof under this vkey commits public values with this digest
verify_sp1_proof(proofs, vkey, pv_digest) ==
  \E q \in proofs : q.vkey = vkey /\ q.digest = pv_digest

\* mutant: every step is treated as the first of the sequence
HasParentProof_never(proving_block_index) == FALSE

\* the else branch of `if proving_block_index == 0`
HasParentProof(proving_block_index) == proving_block_index # Zeros(8)

\* mutant: the current hash folded in front of the parent accumulator
FoldAccumulator_swapped(has_parent, parent_public_input, current_public_input_hash) ==
  IF ~has_parent THEN sha256_hash(current_public_input_hash)
  ELSE sha256_hash(current_public_input_hash
                     \o parent_public_input.compressed_block_public_input)

\* compressed_block_public_input of the step
FoldAccumulator(has_parent, parent_public_input, current_public_input_hash) ==
  IF ~has_parent THEN sha256_hash(current_public_input_hash)
  ELSE sha256_hash(parent_public_input.compressed_block_public_input
                     \o current_public_input_hash)

\* the rest of main once the hashes, the parent check and the fold are
\* known: the calls made in order, the outcome, the committed output if any
ConsensusMain_outcome(input, has_parent, buf, cpi_hash, pdigest, verified, acc, head) ==
  LET tb       == input.witness.trusted_block
      ub       == input.witness.untrusted_block
      ev1      == <<"read_input", "compute_hash">>
      ev2      == IF has_parent THEN ev1 \o <<"verify_sp1_proof">> ELSE ev1
      ev3      == ev2 \o <<"fold">> \o verify_header_events(tb, ub)
      args     == IF has_parent THEN <<input.circuit_vkey_u32_hash, pdigest>> ELSE <<>>
      blank    == [input |-> input, events |-> <<>>, outcome |-> "panicked",
                   panic_at |-> "", hashed |-> <<>>, current_hash |-> <<>>,
                   verify_args |-> <<>>, parent_verified |-> FALSE,
                   accumulator |-> <<>>, output |-> <<>>]
  IN  IF ~input.raw_ok
        THEN [blank EXCEPT !.events = <<"read_input">>, !.panic_at = "from_slice"]
      ELSE IF has_parent /\ ~verified
        THEN [blank EXCEPT !.events = ev2, !.panic_at = "verify_sp1_proof",
                           !.hashed = buf, !.current_hash = cpi_hash,
                           !.verify_args = args]
      ELSE IF head # "ok"
        THEN [blank EXCEPT !.events = ev3, !.panic_at = head,
                           !.hashed = buf, !.current_hash = cpi_hash,
                           !.verify_args = args,
                           !.parent_verified = has_parent, !.accumulator = acc]
      ELSE IF Len(ub.app_hash) # 32
        THEN [blank EXCEPT !.events = ev3, !.panic_at = "app_hash.try_into",
                           !.hashed = buf, !.current_hash = cpi_hash,
                           !.verify_args = args,
                           !.parent_verified = has_parent, !.accumulator = acc]
      ELSE [blank EXCEPT !.events = ev3 \o <<"commit">>, !.outcome = "committed",
                         !.hashed = buf, !.current_hash = cpi_hash,
                         !.verify_args = args,
                         !.parent_verified = has_parent, !.accumulator = acc,
                         !.output = << TendermintOutput(tb.height, ub.height, tb.hash,
                                                        ub.hash, acc, ub.app_hash) >>]

\* main from the parent check on: verify_sp1_proof on the digest of the
\* stated parent, the fold of the current hash, verify_header
ConsensusMain_fold(input, proofs, cpi_hash, pdigest) ==
  ConsensusMain_outcome(
    input,
    HasParentProof(input.proving_block_index),
    VerifierPublicInput_buf(input.current_public_input),
    cpi_hash,
    pdigest,
    verify_sp1_proof(proofs, input.circuit_vkey_u32_hash, pdigest),
    FoldAccumulator(HasParentProof(input.proving_block_index),
                    input.parent_public_input, cpi_hash),
    verify_header(input.witness.trusted_block, input.witness.untrusted_block))

\* one run of main on `input` with the backend holding `proofs`
ConsensusMain(input, proofs) ==
  ConsensusMain_fold(
    input, proofs,
    sha256_hash(VerifierPublicInput_buf(input.current_public_input)),
    TendermintOutput_compute_hash(input.parent_public_input))

\* ---------------------------------------------------------------------
\* core/src/bitcoin.rs and core/src/bitcoin/block.rs: the header record
\* ---------------------------------------------------------------------
to_little_endian_bytes(hash) == Reverse(hash)

double_sha256_hash(tx) == to_little_endian_bytes(sha256_hash(sha256_hash(tx)))

CircuitBlock(h, v, p, m, t, b, n) ==
  [height |-> h, version |-> v, prev_blockhash |-> p, merkle_root |-> m,
   time |-> t, bits |-> b, nonce |-> n]

\* mutant: the height counter is serialized in front of the header fields
CircuitBlock_serialize_height(self) ==
  to_le_bytes(self.height) \o self.version \o self.prev_blockhash \o self.merkle_root
    \o self.time \o self.bits \o self.nonce

\* the bytes pushed by serialize, before its length assertion
CircuitBlock_serialize(self) ==
  self.version \o self.prev_blockhash \o self.merkle_root
    \o self.time \o self.bits \o self.nonce

\* assert_eq!(bytes.len(), 80) inside serialize
CircuitBlock_serialize_ok(self) == Len(CircuitBlock_serialize(self)) = 80

CircuitBlock_compute_block_hash(self) == double_sha256_hash(CircuitBlock_serialize(self))

\* ---------------------------------------------------------------------
\* Arithmetic of u32, u64 and crypto_bigint::U256 on digit sequences
\* ---------------------------------------------------------------------
\* a - b modulo 256^Len(a); the subtraction underflows exactly when ULt(a, b)
USubWrap(a, b) ==
  [i \in 1..Len(a) |->
     LET borrow == IF ULt(SubSeq(a, i + 1, Len(a)), SubSeq(b, i + 1, Len(b)))
                     THEN 1 ELSE 0
     IN  (a[i] - b[i] - borrow + 256) % 256]

\* the carry of a + k (k in 0..255) into digit i, i = 0 being the carry out
UAddSmallCarry(a, k, i) ==
  /\ a[Len(a)] + k >= 256
  /\ \A j \in (i + 1)..(Len(a) - 1) : a[j] = 255

\* a + k modulo 256^Len(a)
UAddSmallWrap(a, k) ==
  [i \in 1..Len(a) |->
     IF i = Len(a) THEN (a[i] + k) % 256
     ELSE (a[i] + (IF UAddSmallCarry(a, k, i) THEN 1 ELSE 0)) % 256]

\* digit k of x, digit 0 the least significant
Dig(x, k) == IF k < Len(x) THEN x[Len(x) - k] ELSE 0

RECURSIVE ColumnSum(_, _, _, _)
\* the sum of Dig(a, j) * Dig(b, k - j) over j..k
ColumnSum(a, b, k, j) ==
  IF j > k \/ j >= Len(a) THEN 0
  ELSE Dig(a, j) * Dig(b, k - j) + ColumnSum(a, b, k, j + 1)

RECURSIVE MulDigits(_, _, _)
\* s = <<column, carry, digits of the product so far>>
MulDigits(a, b, s) ==
  IF s[1] = Len(a) + Len(b) THEN s[3]
  ELSE LET t == ColumnSum(a, b, s[1], 0) + s[2]
       IN  MulDigits(a, b, <<s[1] + 1, t \div 256, <<t % 256>> \o s[3]>>)

\* the full product of a and b, Len(a) + Len(b) digits
UMulWide(a, b) == MulDigits(a, b, <<0, 0, <<>>>>)

RECURSIVE DivDigits(_, _, _)
\* long division by a small d: s = <<next digit, remainder, quotient digits>>
DivDigits(a, d, s) ==
  IF s[1] > Len(a) THEN s
  ELSE LET t == s[2] * 256 + a[s[1]]
       IN  DivDigits(a, d, <<s[1] + 1, t % d, Append(s[3], t \div d)>>)

UDivSmall(a, d) == DivDigits(a, d, <<1, 0, <<>>>>)[3]

UModSmall(a, d) == DivDigits(a, d, <<1, 0, <<>>>>)[2]

\* x << 8n and x >> 8n within the width of x; a shift by the whole width or
\* more gives zero
ShlBytes(x, n) == [i \in 1..Len(x) |-> IF i + n <= Len(x) THEN x[i + n] ELSE 0]

ShrBytes(x, n) == [i \in 1..Len(x) |-> IF i - n >= 1 THEN x[i - n] ELSE 0]

U256_ZERO == Zeros(32)

\* U256::from_u32 / U256::from(u32)
U256_from_u32(x) == Zeros(28) \o x

\* U256::from_be_slice
U256_from_be_slice(bytes) == bytes

\* checked_mul: <<>> for None, <<product>> for Some
U256_checked_mul(a, b) ==
  LET p == UMulWide(a, b)
  IN  IF SubSeq(p, 1, 32) = Zeros(32) THEN << SubSeq(p, 33, 64) >> ELSE <<>>

\* checked_div by a divisor below 2^23: <<>> for None (division by zero)
U256_checked_div(a, d) == IF d = 0 THEN <<>> ELSE << UDivSmall(a, d) >>

\* ---------------------------------------------------------------------
\* core/src/bitcoin.rs constants, core/src/bitcoin/block.rs validation
\* ---------------------------------------------------------------------
MIN_TRUSTED_BLOCK_NUMBER == 11

M_CONFIRMATION == 3

EPOCH_BLOCK_NUMBER == 2016

BLOCK_TIMEVAL == 600

EXPECTED_EPOCH_SECONDS == EPOCH_BLOCK_NUMBER * BLOCK_TIMEVAL

\* the u32 0x7F_FFFF
MaxMantissa == <<0, 127, 255, 255>>

bits_to_target(bits) ==
  LET v    == from_le_bytes(bits)
      unshifted_expt == v[1]
      low  == <<0, v[2], v[3], v[4]>>
      mant == IF unshifted_expt <= 3 THEN ShrBytes(low, 3 - unshifted_expt) ELSE low
      expt == IF unshifted_expt <= 3 THEN 0 ELSE unshifted_expt - 3
  IN  IF ULt(MaxMantissa, mant) THEN U256_ZERO
      ELSE ShlBytes(U256_from_u32(mant), expt)

\* the first statement of assert_new_target_bits: the recomputed target as
\* <<target>>, or <<>> and the panic that ends the call.  A u32 subtraction
\* that underflows panics when the build checks overflow and wraps otherwise.
new_target_difficulty(last_epoch_begin_block, last_epoch_end_block, overflow_checks) ==
  LET old_target_difficulty == bits_to_target(last_epoch_begin_block.bits)
      end_time   == from_le_bytes(last_epoch_end_block.time)
      begin_time == from_le_bytes(last_epoch_begin_block.time)
      elapsed    == USubWrap(end_time, begin_time)
      product    == U256_checked_mul(old_target_difficulty, U256_from_u32(elapsed))
      quotient   == U256_checked_div(product[1], EXPECTED_EPOCH_SECONDS)
  IN  IF overflow_checks /\ ULt(end_time, begin_time)
        THEN [panic |-> "panic_sub_overflow", value |-> <<>>]
      ELSE IF product = <<>> THEN [panic |-> "panic_mul_overflow", value |-> <<>>]
      ELSE IF quotient = <<>> THEN [panic |-> "panic_div_zero", value |-> <<>>]
      ELSE [panic |-> "", value |-> quotient]

\* assert_new_target_bits: "ok", or the panic it ends with
assert_new_target_bits(last_epoch_begin_block, last_epoch_end_block, new_epoch_begin_block, overflow_checks) ==
  LET new_target == new_target_difficulty(last_epoch_begin_block,
                                          last_epoch_end_block, overflow_checks)
      new_bits   == from_le_bytes(new_epoch_begin_block.bits)
      mant       == new_bits[1]
      expt0      == <<0, new_bits[2], new_bits[3], new_bits[4]>>
      expt       == IF ULt(MaxMantissa, expt0) THEN ShrBytes(expt0, 1) ELSE expt0
  IN  IF new_target.value = <<>> THEN new_target.panic
      ELSE IF mant <= 3
        THEN IF new_target.value[1] = ShrBytes(U256_from_u32(expt), 3 - mant)
               THEN "ok" ELSE "new_target_bits_not_matched"
      ELSE IF ShrBytes(new_target.value[1], mant - 3) = U256_from_u32(expt)
        THEN "ok" ELSE "new_target_bits_not_matched"

ConsensusBlockPublicInput(pbh, obh, rbh, mbh, mr, h) ==
  [prev_block_hash |-> pbh, proposed_block_hash |-> obh, retarget_block_hash |-> rbh,
   median_block_hash |-> mbh, m_deep_tx_merkle_root |-> mr, proposed_block_height |-> h]

\* mutant: among headers of equal time the later one is sorted first
median_position_unstable(proposed_chain) ==
  LET n          == Len(proposed_chain)
      start_idx  == n - (MIN_TRUSTED_BLOCK_NUMBER + 1) + 1
      end_idx    == n - 1
      median_idx == (MIN_TRUSTED_BLOCK_NUMBER - 1) \div 2
      t(i)       == from_le_bytes(proposed_chain[i].time)
      rank(i)    == Cardinality({ j \in start_idx..end_idx : ULt(t(j), t(i)) })
                    + Cardinality({ j \in (i + 1)..end_idx : t(j) = t(i) })
  IN  CHOOSE i \in start_idx..end_idx : rank(i) = median_idx

\* position in proposed_chain of the element that a stable sort by time of
\* the 11 headers before the last one puts at index median_idx
median_position(proposed_chain) ==
  LET n          == Len(proposed_chain)
      start_idx  == n - (MIN_TRUSTED_BLOCK_NUMBER + 1) + 1
      end_idx    == n - 1
      median_idx == IF MIN_TRUSTED_BLOCK_NUMBER % 2 = 0
                      THEN MIN_TRUSTED_BLOCK_NUMBER \div 2
                      ELSE (MIN_TRUSTED_BLOCK_NUMBER - 1) \div 2
      t(i)       == from_le_bytes(proposed_chain[i].time)
      rank(i)    == Cardinality({ j \in start_idx..end_idx : ULt(t(j), t(i)) })
                    + Cardinality({ j \in start_idx..(i - 1) : t(j) = t(i) })
  IN  CHOOSE i \in start_idx..end_idx : rank(i) = median_idx

\* validate_block: "ok" when it returns, else the assertion or panic that
\* ends it
validate_block(proposed_chain, retarget_block, block_public_input, overflow_checks) ==
  LET prev_block_hash       == block_public_input.prev_block_hash
      proposed_block_hash   == block_public_input.proposed_block_hash
      retarget_block_hash   == block_public_input.retarget_block_hash
      median_block_hash     == block_public_input.median_block_hash
      m_deep_tx_merkle_root == block_public_input.m_deep_tx_merkle_root
      proposed_block_height == block_public_input.proposed_block_height
      n                 == Len(proposed_chain)
      minimum_chain_len == MIN_TRUSTED_BLOCK_NUMBER + 1
      proposed_block    == proposed_chain[n]
      previous_block    == proposed_chain[n - 1]
      m_deep_block      == proposed_chain[n - M_CONFIRMATION]
      median_block      == proposed_chain[median_position(proposed_chain)]
      bits_check        ==
        IF UModSmall(proposed_block_height, 2016) = 0
          THEN assert_new_target_bits(retarget_block, previous_block, proposed_block,
                                      overflow_checks)
        ELSE IF retarget_block.bits = proposed_block.bits THEN "ok"
        ELSE "target_bits_invalid"
  IN  IF n < minimum_chain_len THEN "chain_too_short"
      ELSE IF ULt(proposed_block_height, Num(MIN_TRUSTED_BLOCK_NUMBER + 1, 8))
        THEN "height_below_minimum"
      ELSE IF ULt(proposed_block_height, retarget_block.height)
        THEN "height_below_retarget"
      ELSE IF proposed_block_height # proposed_block.height
        THEN "height_not_proposed"
      ELSE IF overflow_checks /\ UAddSmallCarry(previous_block.height, 1, 0)
        THEN "panic_add_overflow"
      ELSE IF proposed_block_height # UAddSmallWrap(previous_block.height, 1)
        THEN "height_not_previous"
      ELSE IF overflow_checks /\ UAddSmallCarry(m_deep_block.height, M_CONFIRMATION, 0)
        THEN "panic_add_overflow"
      ELSE IF proposed_block_height # UAddSmallWrap(m_deep_block.height, M_CONFIRMATION)
        THEN "height_not_m_deep"
      ELSE IF proposed_block_hash # CircuitBlock_compute_block_hash(proposed_block)
        THEN "proposed_hash"
      ELSE IF prev_block_hash # CircuitBlock_compute_block_hash(previous_block)
        THEN "previous_hash"
      ELSE IF prev_block_hash # to_little_endian_bytes(proposed_block.prev_blockhash)
        THEN "not_chained"
      ELSE IF retarget_block_hash # CircuitBlock_compute_block_hash(retarget_block)
        THEN "retarget_hash"
      ELSE IF retarget_block_hash = proposed_block_hash
        THEN "retarget_is_proposed"
      ELSE IF bits_check # "ok" THEN bits_check
      ELSE IF ~ULe(U256_from_be_slice(proposed_block_hash),
                   bits_to_target(proposed_block.bits))
        THEN "proof_of_work"
      ELSE IF median_block_hash # CircuitBlock_compute_block_hash(median_block)
        THEN "median_hash"
      ELSE IF ULt(from_le_bytes(proposed_block.time), from_le_bytes(median_block.time))
        THEN "timestamp"
      ELSE IF m_deep_tx_merkle_root # m_deep_block.merkle_root
        THEN "m_deep_merkle_root"
      ELSE "ok"

\* =====================================================================
\* State
\* =====================================================================
VARIABLES
  o_rec,   \* codec: the TendermintOutput record at hand
  o_buf,   \* codec: the byte buffer at hand
  o_src,   \* codec: "empty", "encoded" (o_buf = encode(o_rec)) or "raw"
  o_dec,   \* codec: result of the last decode of o_buf, kind "None" before it
  h_a,     \* header: a first header record
  h_b,     \* header: a second header record
  h_out,   \* header: serializations and hashes of h_a and h_b, done FALSE before
  proven,  \* consensus: the proofs the backend holds, as (vkey, public values, digest)
  run,     \* consensus: the program run at hand, phase "idle" between runs
  t_in,    \* retarget: the headers and build handed to assert_new_target_bits
  t_out,   \* retarget: its outcome and recomputed target, done FALSE before
  b_in,    \* validator: the chain, retarget header and public record at hand
  b_out,   \* validator: the outcome of validate_block, done FALSE before
  m_in,    \* merkle: the leaves and the desired leaf at hand
  m_out,   \* merkle: proof and roots computed from m_in, done FALSE before
  mb_in,   \* membership: the MembershipInput at hand
  mb_out,  \* membership: the run of the membership program, done FALSE before
  ag_in,   \* aggregation: the program input or the prover request at hand
  ag_out,  \* aggregation: the run or the call made on ag_in, done FALSE before
  files,   \* prover: the proof directory, height -> <<>> or <<content>>
  prover,  \* prover: the ConsensusProver at hand (its initial_height)
  call,    \* prover: what the last step did; of a call of prove that ended, its steps and result
  tasks,   \* prover: the calls of prove in flight, each at one of its awaits
  v_in,    \* verify: the Groth16Proof at hand and what the pairing library finds
  v_out,   \* verify: the end of Groth16Proof::verify on v_in, done FALSE before
  f_in,    \* fetch: the key paths asked for and the node's answers to them
  f_run    \* fetch: the call of prepare_membership_input in flight, phase "off" before

vars ==
  <<o_rec, o_buf, o_src, o_dec, h_a, h_b, h_out, proven, run, t_in, t_out, b_in, b_out,
    m_in, m_out, mb_in, mb_out, ag_in, ag_out, files, prover, call, tasks,
    v_in, v_out, f_in, f_run>>

\* ---------------------------------------------------------------------
\* Sample values
\* ---------------------------------------------------------------------
\* number of distinct digest seeds the samples draw from
MaxSeed == 2

\* how many bytes may be cut from or added to an encoded buffer
MaxResize == 2

\* a 32-byte value determined by its seed
Digest(k) == [i \in 1..32 |-> (k * 31 + i * 7) % 256]

HeightSamples ==
  { Num(0, 8), Num(1, 8), <<1, 2, 3, 4, 5, 6, 7, 8>>, [i \in 1..8 |-> 255] }

OutputSamples ==
  { TendermintOutput(th, gh, Digest(k), Digest(k + 1), Digest(k + 2), Digest(k + 3)) :
      th \in HeightSamples, gh \in HeightSamples, k \in 1..MaxSeed }

NoResult == [kind |-> "None", error |-> "", value |-> <<>>]

\* ---------------------------------------------------------------------
\* Codec of TendermintOutput: encode, decode, and buffers of other lengths
\* ---------------------------------------------------------------------
CodecVars == <<o_rec, o_buf, o_src, o_dec>>

MerkleVars == <<m_in, m_out>>

NoMerkleOut == [done |-> FALSE]

MerkleIdle ==
  /\ m_in = [off |-> TRUE]
  /\ m_out = NoMerkleOut

MembershipVars == <<mb_in, mb_out>>

NoMembershipOut == [done |-> FALSE]

MembershipIdle ==
  /\ mb_in = [off |-> TRUE]
  /\ mb_out = NoMembershipOut

AggregationVars == <<ag_in, ag_out>>

NoAggregationOut == [done |-> FALSE]

AggregationIdle ==
  /\ ag_in = [off |-> TRUE]
  /\ ag_out = NoAggregationOut

ProverVars == <<files, prover, call, tasks>>

NoCall == [op |-> "none"]

ProverIdle ==
  /\ files = <<>>
  /\ prover = [off |-> TRUE]
  /\ call = NoCall
  /\ tasks = EmptyBag

VerifyVars == <<v_in, v_out>>

VerifyIdle ==
  /\ v_in = [off |-> TRUE]
  /\ v_out = [done |-> FALSE]

FetchVars == <<f_in, f_run>>

FetchIdle ==
  /\ f_in = [off |-> TRUE]
  /\ f_run = [phase |-> "off"]

\* the variables of the host side: Groth16Proof::verify and the fetches of
\* prepare_membership_input
HostVars == <<VerifyVars, FetchVars>>

HostIdle ==
  /\ VerifyIdle
  /\ FetchIdle

\* the variables of the Merkle engine, the membership and aggregation
\* programs, the prover service and the host side
ExtraVars == <<MerkleVars, MembershipVars, AggregationVars, ProverVars, HostVars>>

ExtraIdle ==
  /\ MerkleIdle
  /\ MembershipIdle
  /\ AggregationIdle
  /\ ProverIdle
  /\ HostIdle

HeaderVars == <<h_a, h_b, h_out>>

ConsensusVars == <<proven, run>>

NoRun == [phase |-> "idle"]

ConsensusIdle ==
  /\ proven = {}
  /\ run = NoRun

TargetVars == <<t_in, t_out>>

NoTargetOut == [done |-> FALSE, result |-> "", new_target |-> <<>>]

TargetIdle ==
  /\ t_in = [off |-> TRUE]
  /\ t_out = NoTargetOut

BlockVars == <<b_in, b_out>>

NoBlockOut == [done |-> FALSE, overflow_checks |-> FALSE, result |-> ""]

BlockIdle ==
  /\ b_in = [off |-> TRUE]
  /\ b_out = NoBlockOut

NoHeaderOut ==
  [done |-> FALSE, panicked |-> FALSE, ser_a |-> <<>>, ser_b |-> <<>>,
   hash_a |-> <<>>, hash_b |-> <<>>]

HeaderIdle ==
  /\ h_a = CircuitBlock(Zeros(8), Zeros(4), Zeros(32), Zeros(32), Zeros(4), Zeros(4), Zeros(4))
  /\ h_b = h_a
  /\ h_out = NoHeaderOut

CodecIdle ==
  /\ o_rec = TendermintOutput_default
  /\ o_buf = <<>>
  /\ o_src = "off"
  /\ o_dec = NoResult

\* the variables of the codec, header, consensus, retarget and validator parts
CoreVars == <<CodecVars, HeaderVars, ConsensusVars, TargetVars, BlockVars>>

CoreIdle ==
  /\ CodecIdle
  /\ HeaderIdle
  /\ ConsensusIdle
  /\ TargetIdle
  /\ BlockIdle

CodecInit ==
  /\ ExtraIdle
  /\ HeaderIdle
  /\ ConsensusIdle
  /\ TargetIdle
  /\ BlockIdle
  /\ o_rec \in OutputSamples
  /\ o_buf = <<>>
  /\ o_src = "empty"
  /\ o_dec = NoResult

EncodeOutput ==
  /\ o_src = "empty"
  /\ o_buf' = TendermintOutput_encode(o_rec)
  /\ o_src' = "encoded"
  /\ o_dec' = NoResult
  /\ UNCHANGED <<o_rec, HeaderVars, ConsensusVars, TargetVars, BlockVars, ExtraVars>>

\* a caller hands over a buffer one byte shorter
TruncateBuffer ==
  /\ o_src # "empty"
  /\ Len(o_buf) > TendermintOutput_BYTE_SIZE - MaxResize
  /\ o_buf' = SubSeq(o_buf, 1, Len(o_buf) - 1)
  /\ o_src' = "raw"
  /\ o_dec' = NoResult
  /\ UNCHANGED <<o_rec, HeaderVars, ConsensusVars, TargetVars, BlockVars, ExtraVars>>

\* a caller hands over a buffer one byte longer
ExtendBuffer ==
  /\ o_src # "empty"
  /\ Len(o_buf) < TendermintOutput_BYTE_SIZE + MaxResize
  /\ o_buf' = Append(o_buf, 171)
  /\ o_src' = "raw"
  /\ o_dec' = NoResult
  /\ UNCHANGED <<o_rec, HeaderVars, ConsensusVars, TargetVars, BlockVars, ExtraVars>>

DecodeOutput ==
  /\ o_dec.kind = "None"
  /\ o_dec' = TendermintOutput_decode(o_buf)
  /\ UNCHANGED <<o_rec, o_buf, o_src, HeaderVars, ConsensusVars, TargetVars, BlockVars, ExtraVars>>

CodecNext == EncodeOutput \/ TruncateBuffer \/ ExtendBuffer \/ DecodeOutput

SpecCodec == CodecInit /\ [][CodecNext]_vars

\* ---------------------------------------------------------------------
\* C7: an encoded TendermintOutput has exactly 144 bytes, laid out as
\* trusted_height (8, LE), target_height (8, LE), trusted_header_hash (32),
\* target_header_hash (32), compressed accumulator (32), app_hash (32), and
\* decoding the encoded bytes gives the record back.
\* ---------------------------------------------------------------------
LittleEndian(x) == [i \in 1..Len(x) |-> x[Len(x) + 1 - i]]

C7_RoundTrip ==
  o_src = "encoded" =>
    /\ Len(o_buf) = 144
    /\ SubSeq(o_buf, 1, 8) = LittleEndian(o_rec.trusted_height)
    /\ SubSeq(o_buf, 9, 16) = LittleEndian(o_rec.target_height)
    /\ SubSeq(o_buf, 17, 48) = o_rec.trusted_header_hash
    /\ SubSeq(o_buf, 49, 80) = o_rec.target_header_hash
    /\ SubSeq(o_buf, 81, 112) = o_rec.compressed_block_public_input
    /\ SubSeq(o_buf, 113, 144) = o_rec.app_hash
    /\ (o_dec.kind # "None" => o_dec.kind = "Ok" /\ o_dec.value = <<o_rec>>)

C7_Witness ==
  /\ o_src = "encoded"
  /\ o_dec.kind = "Ok"
  /\ o_rec.trusted_height = <<1, 2, 3, 4, 5, 6, 7, 8>>
  /\ o_rec.target_height = Num(1, 8)

\* ---------------------------------------------------------------------
\* C8: decode of a buffer whose length is not 144 returns the length error,
\* with no record and without panicking; decode of any 144-byte buffer
\* returns a record.
\* ---------------------------------------------------------------------
C8_DecodeTotal ==
  o_dec.kind # "None" =>
    /\ o_dec.kind # "Panic"
    /\ (Len(o_buf) # 144 => o_dec.kind = "Err" /\ o_dec.error = "InvalidData"
                            /\ o_dec.value = <<>>)
    /\ (Len(o_buf) = 144 => o_dec.kind = "Ok" /\ Len(o_dec.value) = 1)

C8_Witness ==
  /\ o_dec.kind = "Err"
  /\ Len(o_buf) = 143

\* ---------------------------------------------------------------------
\* Header serialization and hash, applied to a pair of header records
\* ---------------------------------------------------------------------
\* number of distinct header contents per height in the samples
MaxVariant == 2

HeaderHeights == { Num(12, 8), [i \in 1..8 |-> 255] }

\* a header whose serialized fields are determined by the variant k and nonce n
SampleBlock(h, k, n) ==
  CircuitBlock(h, <<k, 0, 0, 32>>, Digest(k), Digest(k + 7),
               <<k, 154, 91, 101>>, <<255, 255, 127, 32>>, <<n, 0, 0, k>>)

BlockSamples ==
  { SampleBlock(h, k, n) : h \in HeaderHeights, k \in 1..MaxVariant, n \in {0, 1} }

HeaderInit ==
  /\ ExtraIdle
  /\ CodecIdle
  /\ ConsensusIdle
  /\ TargetIdle
  /\ BlockIdle
  /\ h_a \in BlockSamples
  /\ h_b \in BlockSamples
  /\ h_out = NoHeaderOut

HashHeaders ==
  /\ ~h_out.done
  /\ h_out' =
       IF ~CircuitBlock_serialize_ok(h_a) \/ ~CircuitBlock_serialize_ok(h_b)
         THEN [NoHeaderOut EXCEPT !.done = TRUE, !.panicked = TRUE]
         ELSE [done |-> TRUE, panicked |-> FALSE,
               ser_a |-> CircuitBlock_serialize(h_a),
               ser_b |-> CircuitBlock_serialize(h_b),
               hash_a |-> CircuitBlock_compute_block_hash(h_a),
               hash_b |-> CircuitBlock_compute_block_hash(h_b)]
  /\ UNCHANGED <<h_a, h_b, CodecVars, ConsensusVars, TargetVars, BlockVars, ExtraVars>>

HeaderNext == HashHeaders

SpecHeader == HeaderInit /\ [][HeaderNext]_vars

\* ---------------------------------------------------------------------
\* C10: a header serializes to exactly 80 bytes, version (4), prev_hash
\* (32), merkle_root (32), time (4), bits (4), nonce (4); its hash is the
\* byte-reversed double SHA-256 of those bytes alone, so two headers that
\* differ only in height have the same serialization and the same hash.
\* ---------------------------------------------------------------------
SameHeaderFields(x, y) ==
  /\ x.version = y.version
  /\ x.prev_blockhash = y.prev_blockhash
  /\ x.merkle_root = y.merkle_root
  /\ x.time = y.time
  /\ x.bits = y.bits
  /\ x.nonce = y.nonce

C10_HeaderHash ==
  h_out.done =>
    /\ ~h_out.panicked
    /\ Len(h_out.ser_a) = 80
    /\ SubSeq(h_out.ser_a, 1, 4) = h_a.version
    /\ SubSeq(h_out.ser_a, 5, 36) = h_a.prev_blockhash
    /\ SubSeq(h_out.ser_a, 37, 68) = h_a.merkle_root
    /\ SubSeq(h_out.ser_a, 69, 72) = h_a.time
    /\ SubSeq(h_out.ser_a, 73, 76) = h_a.bits
    /\ SubSeq(h_out.ser_a, 77, 80) = h_a.nonce
    /\ (SameHeaderFields(h_a, h_b) =>
          h_out.ser_a = h_out.ser_b /\ h_out.hash_a = h_out.hash_b)
    /\ (h_out.ser_a = h_out.ser_b <=> h_out.hash_a = h_out.hash_b)

C10_Witness ==
  /\ h_out.done
  /\ h_a.height # h_b.height
  /\ SameHeaderFields(h_a, h_b)
  /\ h_out.hash_a = h_out.hash_b

\* ---------------------------------------------------------------------
\* Consensus program: runs of main against the proofs the backend holds
\* ---------------------------------------------------------------------
\* highest proving_block_index the inputs use
MaxIndex == 1

\* how many proofs the backend may come to hold
MaxProofs == 1

\* height of the initial trusted block of the samples
InitialHeight == 10

\* vkey digest of the consensus program, and of some other program
ConsensusVKey == <<11, 12, 13, 14, 15, 16, 17, 18>>

OtherVKey == <<21, 22, 23, 24, 25, 26, 27, 28>>

\* the time of block 0 of the sample chain, 2025-06-01T00:00:00Z
ChainStart == <<14, 223, 205, 143, 0>>

\* block k of the sample chain, six seconds after the block before
ChainBlock(k) ==
  LightBlock(Num(InitialHeight + k, 8), Digest(40 + k), Digest(80 + k),
             Digest(120 + k), Digest(120 + k), "valid",
             UAddWrap(ChainStart, Num(6 * k, 5)))

\* an output no run has committed
ForgedOutput ==
  TendermintOutput(Num(InitialHeight, 8), Num(InitialHeight + 1, 8), Digest(201),
                   Digest(202), Digest(203), Digest(204))

Faults ==
  { "none", "malformed", "vkey", "stated_parent", "forged_parent", "unsigned",
    "next_validators", "wrong_pair", "not_newer", "other_public_input",
    "late_time", "expired" }

\* the input the host builds for index idx on top of parent, with one
\* deviation from it
SampleInput(idx, parent, fault) ==
  LET k   == IF fault = "wrong_pair" THEN idx + 1 ELSE idx
      tb0 == ChainBlock(k)
      tb  == IF fault = "next_validators"
               THEN [tb0 EXCEPT !.next_validators = Digest(199)] ELSE tb0
      ub0 == IF fault = "not_newer" THEN ChainBlock(k) ELSE ChainBlock(k + 1)
      ub  == IF fault = "unsigned" THEN [ub0 EXCEPT !.commit = "none"]
             ELSE IF fault = "late_time"
               THEN [ub0 EXCEPT !.time = <<73, 119, 134, 56, 110>>]
             ELSE IF fault = "expired"
               THEN [ub0 EXCEPT !.time = UAddWrap(tb0.time, <<0, 0, 18, 117, 0>>)]
             ELSE ub0
      ppi == IF fault = "forged_parent" THEN ForgedOutput ELSE parent
      pc  == IF fault = "stated_parent" THEN Digest(198)
             ELSE parent.compressed_block_public_input
  IN  ConsensusInput(fault # "malformed", Num(idx, 8),
                     IF fault = "vkey" THEN OtherVKey ELSE ConsensusVKey,
                     ppi,
                     IF fault = "other_public_input"
                       THEN VerifierPublicInput(pc, Digest(197), Num(InitialHeight + 7, 8),
                                                Digest(196))
                     ELSE VerifierPublicInput(pc, ub.app_hash, ub.height, ub.hash),
                     tb, ub)

ParentSamples == { TendermintOutput_default } \cup { q.public_values : q \in proven }

ConsensusInit ==
  /\ ExtraIdle
  /\ CodecIdle
  /\ HeaderIdle
  /\ TargetIdle
  /\ BlockIdle
  /\ proven = {}
  /\ run = NoRun

\* a finished run r is recorded; a committed output becomes a proof the
\* backend holds
RecordRun(r) ==
  /\ run' = [phase |-> "done", proofs |-> proven, result |-> r]
  /\ proven' =
       IF r.outcome = "committed" /\ Cardinality(proven) < MaxProofs
         THEN proven \cup
                { [vkey |-> ConsensusVKey, public_values |-> r.output[1],
                   digest |-> TendermintOutput_compute_hash(r.output[1])] }
         ELSE proven

\* the prover executes the program on an input
RunConsensus ==
  /\ run.phase = "idle"
  /\ Cardinality(proven) <= MaxProofs
  /\ \E idx \in 0..MaxIndex, parent \in ParentSamples, fault \in Faults :
       RecordRun(ConsensusMain(SampleInput(idx, parent, fault), proven))
  /\ UNCHANGED <<CodecVars, HeaderVars, TargetVars, BlockVars, ExtraVars>>

\* the run is over; the next one starts from the proofs held
ExitConsensus ==
  /\ run.phase = "done"
  /\ run' = NoRun
  /\ UNCHANGED <<proven, CodecVars, HeaderVars, TargetVars, BlockVars, ExtraVars>>

Next == RunConsensus \/ ExitConsensus

Spec == ConsensusInit /\ [][Next]_vars

\* position of the first occurrence of e in the call sequence, 0 if absent
Pos(events, e) ==
  IF \E i \in 1..Len(events) : events[i] = e
    THEN CHOOSE i \in 1..Len(events) :
           events[i] = e /\ \A j \in 1..(i - 1) : events[j] # e
    ELSE 0

RunDone == run.phase = "done"

RunCommitted == RunDone /\ run.result.outcome = "committed"

\* ---------------------------------------------------------------------
\* C1: the committed accumulator follows the folding rule: at index 0 it is
\* H(H(current_public_input)) whatever parent_public_input is; at a later
\* index it is H(parent accumulator || H(current_public_input)), H being
\* SHA-256 and H(current_public_input) being VerifierPublicInput::compute_hash.
\* ---------------------------------------------------------------------
C1_FoldingRule ==
  RunCommitted =>
    LET in  == run.result.input
        h   == VerifierPublicInput_compute_hash(in.current_public_input)
        out == run.result.output[1]
    IN  IF in.proving_block_index = Zeros(8)
          THEN /\ out.compressed_block_public_input = sha256_hash(h)
               /\ \A p \in {TendermintOutput_default, ForgedOutput} :
                    ConsensusMain([in EXCEPT !.parent_public_input = p],
                                  run.proofs).output = run.result.output
          ELSE out.compressed_block_public_input =
                 sha256_hash(in.parent_public_input.compressed_block_public_input \o h)

C1_Witness ==
  /\ RunCommitted
  /\ run.result.input.proving_block_index = Num(1, 8)
  /\ run.result.input.parent_public_input \in { q.public_values : q \in run.proofs }
  /\ run.result.output[1].compressed_block_public_input
       # run.result.input.parent_public_input.compressed_block_public_input

\* ---------------------------------------------------------------------
\* C2: at an index above 0 the backend is asked to verify (circuit vkey,
\* hash of parent_public_input) before the accumulator is folded; when that
\* verification fails the run aborts and commits nothing; an output is
\* committed only after the parent-proof verification (index above 0) and
\* the light-client header verification have both succeeded.
\* ---------------------------------------------------------------------
C2_VerifyBeforeCommit ==
  RunDone =>
    LET r      == run.result
        in     == r.input
        ev     == r.events
        later  == in.raw_ok /\ in.proving_block_index # Zeros(8)
        digest == TendermintOutput_compute_hash(in.parent_public_input)
        held   == \E q \in run.proofs :
                    q.vkey = in.circuit_vkey_u32_hash /\ q.digest = digest
    IN  /\ later =>
             /\ Pos(ev, "verify_sp1_proof") > 0
             /\ r.verify_args = <<in.circuit_vkey_u32_hash, digest>>
             /\ Pos(ev, "fold") > 0 => Pos(ev, "verify_sp1_proof") < Pos(ev, "fold")
             /\ ~held => /\ r.outcome = "panicked"
                         /\ r.output = <<>>
                         /\ Pos(ev, "fold") = 0
                         /\ Pos(ev, "commit") = 0
        /\ r.outcome = "committed" =>
             /\ Len(r.output) = 1
             /\ ev[Len(ev)] = "commit"
             /\ later => held /\ Pos(ev, "verify_sp1_proof") < Pos(ev, "commit")
             /\ in.witness.trusted_block.next_validators
                  = in.witness.trusted_block.next_validators_hash
             /\ in.witness.untrusted_block.commit = "valid"
             /\ ULt(in.witness.trusted_block.height, in.witness.untrusted_block.height)
             /\ Pos(ev, "verify_update_header") > 0
             /\ Pos(ev, "verify_update_header") < Pos(ev, "commit")
        /\ r.outcome # "committed" => r.output = <<>> /\ Pos(ev, "commit") = 0

C2_Witness ==
  /\ RunDone
  /\ run.result.input.proving_block_index = Num(1, 8)
  /\ run.proofs # {}
  /\ run.result.panic_at = "verify_sp1_proof"
  /\ run.result.output = <<>>

\* ---------------------------------------------------------------------
\* C3: a run at an index above 0 that commits an output has a stated parent
\* commitment (current_public_input.parent_compressed_block_public_input)
\* equal to the accumulator of the verified parent output
\* (parent_public_input.compressed_block_public_input).
\* ---------------------------------------------------------------------
C3_StatedParentIsVerifiedParent ==
  (RunCommitted /\ run.result.input.proving_block_index # Zeros(8)) =>
    run.result.input.current_public_input.parent_compressed_block_public_input
      = run.result.input.parent_public_input.compressed_block_public_input

\* ---------------------------------------------------------------------
\* C9: the byte string VerifierPublicInput::compute_hash hands to the hash
\* has length 72, the value of BYTE_SIZE, for every input.
\* ---------------------------------------------------------------------
C9_HashedLayoutIs72Bytes ==
  (RunDone /\ run.result.input.raw_ok) =>
    /\ Len(run.result.hashed) = 72
    /\ Len(run.result.hashed) = VerifierPublicInput_BYTE_SIZE

\* ---------------------------------------------------------------------
\* C17: in verify_header the next-validator-set hash of the trusted block is
\* compared with the declared next_validators_hash before the header
\* verification is invoked; a verdict other than Success aborts the run; a
\* committed output carries the untrusted header's app_hash, height and hash
\* and the trusted header's height and hash as they were given.
\* ---------------------------------------------------------------------
C17_VerifyHeaderOrder ==
  RunDone =>
    LET r  == run.result
        ev == r.events
        tb == r.input.witness.trusted_block
        ub == r.input.witness.untrusted_block
    IN  /\ Pos(ev, "verify_update_header") > 0 =>
             /\ Pos(ev, "assert_next_validators") > 0
             /\ Pos(ev, "assert_next_validators") < Pos(ev, "verify_update_header")
             /\ tb.next_validators = tb.next_validators_hash
        /\ (Pos(ev, "assert_next_validators") > 0
              /\ tb.next_validators # tb.next_validators_hash) =>
             /\ r.outcome = "panicked"
             /\ Pos(ev, "verify_update_header") = 0
        /\ (Pos(ev, "verify_update_header") > 0
              /\ HeaderVerdict(ub, tb) # "Success") =>
             /\ r.outcome = "panicked"
             /\ r.output = <<>>
        /\ r.outcome = "committed" =>
             /\ HeaderVerdict(ub, tb) = "Success"
             /\ r.output[1].app_hash = ub.app_hash
             /\ r.output[1].target_height = ub.height
             /\ r.output[1].target_header_hash = ub.hash
             /\ r.output[1].trusted_height = tb.height
             /\ r.output[1].trusted_header_hash = tb.hash

\* a run reached the header verification and was aborted by its verdict
C17_Witness ==
  /\ RunDone
  /\ Pos(run.result.events, "verify_update_header") > 0
  /\ HeaderVerdict(run.result.input.witness.untrusted_block,
                   run.result.input.witness.trusted_block) = "Invalid"
  /\ run.result.outcome = "panicked"

\* ---------------------------------------------------------------------
\* Retarget computation: assert_new_target_bits on sample headers
\* ---------------------------------------------------------------------
\* compact bits aabbccdd as the header stores them (little endian)
Bits(aa, bb, cc, dd) == <<dd, cc, bb, aa>>

\* 1700000000, the time of the sample retarget header
RetargetTime == <<101, 83, 241, 0>>

\* the time of the last header of the epoch: the retarget time plus
\* 1209600, 2 * 1209600, 604800, and minus 600
EpochEndTimes ==
  { <<101, 102, 102, 0>>, <<101, 120, 219, 0>>, <<101, 93, 43, 128>>,
    <<101, 83, 238, 168>> }

RetargetBits ==
  { Bits(29, 0, 255, 255), Bits(28, 64, 0, 0), Bits(30, 3, 255, 255),
    Bits(32, 127, 255, 255), Bits(29, 128, 255, 255), Bits(3, 18, 52, 86),
    Bits(2, 0, 128, 0) }

ProposedBits ==
  RetargetBits \cup
    { Bits(29, 1, 255, 254), Bits(30, 0, 1, 255), Bits(29, 0, 128, 0),
      Bits(29, 128, 0, 0), Bits(29, 255, 255, 0), Bits(30, 7, 255, 254),
      Bits(28, 127, 255, 128) }

\* a header of which only time and bits matter here
TargetHeader(time, bits) ==
  CircuitBlock(Zeros(8), <<0, 0, 0, 32>>, Zeros(32), Zeros(32), to_le_bytes(time),
               bits, Zeros(4))

TargetInit ==
  /\ ExtraIdle
  /\ CodecIdle
  /\ HeaderIdle
  /\ ConsensusIdle
  /\ BlockIdle
  /\ t_in \in [ last_epoch_begin_block : { TargetHeader(RetargetTime, b) : b \in RetargetBits },
                last_epoch_end_block   : { TargetHeader(t, Bits(29, 0, 255, 255)) :
                                             t \in EpochEndTimes },
                new_epoch_begin_block  : { TargetHeader(RetargetTime, b) : b \in ProposedBits },
                overflow_checks        : BOOLEAN ]
  /\ t_out = NoTargetOut

CheckNewTargetBits ==
  /\ ~t_out.done
  /\ t_out' =
       [done |-> TRUE,
        result |-> assert_new_target_bits(t_in.last_epoch_begin_block,
                                          t_in.last_epoch_end_block,
                                          t_in.new_epoch_begin_block,
                                          t_in.overflow_checks),
        new_target |-> new_target_difficulty(t_in.last_epoch_begin_block,
                                             t_in.last_epoch_end_block,
                                             t_in.overflow_checks).value]
  /\ UNCHANGED <<t_in, CodecVars, HeaderVars, ConsensusVars, BlockVars, ExtraVars>>

TargetNext == CheckNewTargetBits

SpecTarget == TargetInit /\ [][TargetNext]_vars

\* ---------------------------------------------------------------------
\* C6: at a retarget boundary the new target is old_target * (prev.time -
\* retarget.time) / 1209600.  With an elapsed time of 1209600 it equals the
\* old target and a proposed header carrying the retarget header's bits
\* passes; with an elapsed time of 2 * 1209600 it is exactly twice the old
\* target and only bits that decode to it, truncated to the precision of
\* their own exponent, pass.
\* ---------------------------------------------------------------------
EpochEnd == from_le_bytes(t_in.last_epoch_end_block.time)

OldTarget == bits_to_target(t_in.last_epoch_begin_block.bits)

\* the 256-bit value x cut down to what compact bits of exponent byte e keep
TruncateToExponent(x, e) ==
  IF e <= 3 THEN x ELSE ShlBytes(ShrBytes(x, e - 3), e - 3)

C6_RetargetRecompute ==
  t_out.done =>
    /\ EpochEnd = <<101, 102, 102, 0>> =>
         /\ t_out.new_target = << OldTarget >>
         /\ t_in.new_epoch_begin_block.bits = t_in.last_epoch_begin_block.bits
              => t_out.result = "ok"
    /\ EpochEnd = <<101, 120, 219, 0>> =>
         /\ <<0>> \o t_out.new_target[1] = UMulWide(<<2>>, OldTarget)
         /\ t_out.result = "ok" =>
              bits_to_target(t_in.new_epoch_begin_block.bits)
                = TruncateToExponent(t_out.new_target[1],
                                     from_le_bytes(t_in.new_epoch_begin_block.bits)[1])

\* ---------------------------------------------------------------------
\* Header validator: validate_block on sample windows and single changes
\* ---------------------------------------------------------------------
SampleHeader(height, prev, merkle, time, bits, nonce) ==
  CircuitBlock(Num(height, 8), <<0, 0, 0, 32>>, prev, merkle, time, bits, nonce)

\* Window 1: heights 2017..2028 inside the epoch of the retarget header 2016,
\* bits 0x207fffff throughout, every header mined and linked to the one before.
\* Window 2: heights 4021..4032 with retarget header 2016, bits 0x1e03ffff,
\* header 4031 exactly 2 * 1209600 seconds after it and header 4032 carrying
\* 0x1e07fffe.  Window 3: as window 2 with bits 0x1d00ffff, but header 4031 is
\* 600 seconds older than the retarget header and header 4032 carries
\* 0x1e0ddead, the bits of old_target * (2^32 - 600) / 1209600.
Window1Retarget ==
  SampleHeader(2016,
    <<17, 17, 17, 17, 17, 17, 17, 17, 17, 17, 17, 17, 17, 17, 17, 17, 17, 17,
    17, 17, 17, 17, 17, 17, 17, 17, 17, 17, 17, 17, 17, 17>>,
    <<169, 124, 203, 148, 78, 88, 232, 250, 5, 123, 152, 74, 94, 14, 175, 11,
    1, 252, 68, 127, 98, 33, 99, 192, 106, 51, 186, 2, 180, 125, 89, 1>>,
    <<0, 241, 83, 101>>, <<255, 255, 127, 32>>, <<0, 0, 0, 0>>)

Window1Chain ==
  <<
    SampleHeader(2017,
      <<208, 168, 124, 236, 172, 101, 203, 64, 75, 167, 71, 34, 147, 19, 76,
      7, 196, 247, 127, 133, 42, 255, 123, 245, 52, 212, 123, 125, 214, 159,
      130, 65>>,
      <<195, 248, 230, 8, 217, 246, 49, 29, 27, 102, 10, 109, 104, 43, 249,
      241, 14, 198, 76, 88, 75, 212, 175, 84, 113, 204, 156, 40, 119, 144,
      41, 188>>,
      <<88, 243, 83, 101>>, <<255, 255, 127, 32>>, <<3, 0, 0, 0>>),
    SampleHeader(2018,
      <<139, 106, 163, 104, 221, 170, 51, 48, 198, 42, 30, 22, 226, 55, 246,
      126, 69, 33, 198, 18, 20, 234, 210, 83, 51, 68, 73, 26, 17, 175, 113,
      47>>,
      <<34, 251, 35, 169, 201, 151, 44, 57, 6, 251, 82, 37, 243, 120, 187,
      212, 42, 170, 182, 122, 32, 178, 59, 144, 208, 208, 76, 128, 50, 166,
      169, 60>>,
      <<176, 245, 83, 101>>, <<255, 255, 127, 32>>, <<1, 0, 0, 0>>),
    SampleHeader(2019,
      <<123, 71, 220, 220, 178, 244, 160, 204, 122, 200, 107, 222, 111, 10,
      124, 140, 169, 131, 195, 123, 17, 206, 225, 192, 248, 197, 242, 20, 37,
      115, 179, 11>>,
      <<60, 180, 57, 108, 62, 249, 151, 23, 133, 181, 3, 151, 66, 174, 183,
      247, 221, 77, 82, 255, 185, 72, 151, 198, 59, 83, 206, 79, 173, 222,
      183, 215>>,
      <<8, 248, 83, 101>>, <<255, 255, 127, 32>>, <<1, 0, 0, 0>>),
    SampleHeader(2020,
      <<20, 131, 192, 56, 20, 77, 95, 85, 78, 78, 120, 90, 223, 48, 33, 199,
      20, 141, 181, 144, 121, 167, 214, 60, 113, 38, 4, 113, 180, 188, 90,
      109>>,
      <<27, 214, 56, 30, 252, 189, 253, 146, 228, 113, 90, 191, 246, 155, 43,
      145, 238, 87, 162, 3, 20, 99, 231, 28, 208, 62, 86, 60, 33, 211, 223,
      34>>,
      <<220, 246, 83, 101>>, <<255, 255, 127, 32>>, <<2, 0, 0, 0>>),
    SampleHeader(2021,
      <<245, 185, 232, 235, 29, 53, 197, 239, 217, 99, 36, 72, 79, 235, 243,
      133, 229, 201, 228, 143, 13, 245, 117, 217, 210, 164, 3, 111, 180, 203,
      119, 91>>,
      <<152, 230, 211, 204, 239, 10, 226, 14, 75, 199, 223, 251, 87, 200,
      164, 129, 89, 44, 49, 182, 197, 6, 104, 107, 113, 238, 8, 215, 226,
      209, 251, 62>>,
      <<184, 252, 83, 101>>, <<255, 255, 127, 32>>, <<1, 0, 0, 0>>),
    SampleHeader(2022,
      <<230, 67, 216, 109, 5, 217, 11, 146, 46, 110, 134, 245, 207, 34, 76,
      18, 211, 15, 23, 179, 193, 105, 22, 228, 204, 176, 217, 230, 204, 204,
      249, 59>>,
      <<169, 207, 70, 65, 35, 255, 247, 13, 225, 15, 140, 42, 95, 177, 31,
      248, 166, 89, 112, 58, 41, 15, 172, 87, 32, 194, 66, 105, 155, 252,
      254, 81>>,
      <<184, 252, 83, 101>>, <<255, 255, 127, 32>>, <<2, 0, 0, 0>>),
    SampleHeader(2023,
      <<170, 56, 29, 99, 167, 82, 18, 84, 132, 170, 27, 24, 11, 143, 60, 148,
      146, 220, 162, 229, 83, 80, 78, 112, 228, 231, 163, 217, 145, 51, 79,
      21>>,
      <<177, 110, 101, 46, 14, 253, 228, 217, 137, 192, 211, 240, 67, 53,
      129, 8, 114, 11, 99, 95, 195, 249, 189, 60, 161, 39, 85, 212, 202, 152,
      36, 193>>,
      <<16, 255, 83, 101>>, <<255, 255, 127, 32>>, <<4, 0, 0, 0>>),
    SampleHeader(2024,
      <<173, 223, 73, 137, 253, 61, 213, 71, 8, 32, 90, 52, 169, 198, 198, 7,
      22, 202, 54, 136, 25, 146, 145, 215, 88, 235, 196, 39, 120, 197, 188,
      42>>,
      <<174, 211, 15, 12, 174, 36, 219, 137, 182, 75, 86, 13, 76, 141, 206,
      64, 143, 241, 148, 171, 41, 215, 165, 27, 111, 169, 242, 21, 184, 123,
      1, 149>>,
      <<96, 250, 83, 101>>, <<255, 255, 127, 32>>, <<0, 0, 0, 0>>),
    SampleHeader(2025,
      <<235, 213, 137, 135, 14, 48, 205, 129, 41, 175, 53, 249, 247, 76, 42,
      91, 138, 136, 85, 243, 240, 76, 253, 218, 171, 140, 220, 145, 25, 134,
      110, 19>>,
      <<96, 67, 46, 252, 29, 210, 249, 169, 39, 14, 31, 43, 8, 83, 221, 116,
      169, 29, 27, 205, 249, 128, 230, 126, 134, 104, 117, 75, 181, 27, 118,
      131>>,
      <<24, 6, 84, 101>>, <<255, 255, 127, 32>>, <<0, 0, 0, 0>>),
    SampleHeader(2026,
      <<123, 164, 34, 15, 27, 84, 18, 194, 97, 12, 212, 88, 232, 152, 95,
      212, 42, 170, 17, 244, 148, 225, 31, 44, 179, 248, 57, 124, 89, 109,
      56, 7>>,
      <<182, 230, 248, 140, 26, 90, 207, 49, 149, 211, 220, 64, 190, 144,
      122, 136, 23, 186, 1, 193, 129, 38, 200, 89, 49, 60, 185, 124, 188,
      204, 149, 14>>,
      <<192, 3, 84, 101>>, <<255, 255, 127, 32>>, <<1, 0, 0, 0>>),
    SampleHeader(2027,
      <<130, 89, 98, 117, 58, 176, 244, 179, 64, 0, 25, 15, 245, 95, 67, 23,
      78, 22, 153, 212, 42, 37, 157, 176, 143, 69, 84, 208, 62, 110, 230, 6>>,
      <<130, 21, 235, 135, 21, 168, 158, 227, 192, 57, 185, 42, 8, 189, 101,
      58, 221, 104, 42, 178, 239, 38, 166, 114, 42, 52, 216, 208, 202, 9,
      255, 144>>,
      <<112, 8, 84, 101>>, <<255, 255, 127, 32>>, <<0, 0, 0, 0>>),
    SampleHeader(2028,
      <<191, 92, 28, 71, 233, 168, 11, 222, 122, 196, 234, 224, 26, 140, 78,
      100, 64, 95, 24, 156, 3, 31, 52, 12, 137, 113, 26, 212, 208, 148, 101,
      115>>,
      <<194, 68, 31, 75, 58, 89, 210, 14, 118, 156, 76, 201, 40, 105, 88,
      101, 145, 86, 153, 6, 36, 71, 86, 220, 62, 255, 129, 34, 222, 142, 189,
      249>>,
      <<112, 8, 84, 101>>, <<255, 255, 127, 32>>, <<0, 0, 0, 0>>)
  >>

Window1Record ==
  ConsensusBlockPublicInput(
    <<115, 101, 148, 208, 212, 26, 113, 137, 12, 52, 31, 3, 156, 24, 95, 64,
    100, 78, 140, 26, 224, 234, 196, 122, 222, 11, 168, 233, 71, 28, 92, 191>>,
    <<71, 194, 61, 113, 131, 198, 204, 235, 94, 151, 160, 72, 245, 103, 109,
    165, 152, 109, 66, 163, 238, 201, 180, 158, 182, 220, 172, 30, 190, 150,
    179, 99>>,
    <<65, 130, 159, 214, 125, 123, 212, 52, 245, 123, 255, 42, 133, 127, 247,
    196, 7, 76, 19, 147, 34, 71, 167, 75, 64, 203, 101, 172, 236, 124, 168,
    208>>,
    <<59, 249, 204, 204, 230, 217, 176, 204, 228, 22, 105, 193, 179, 23, 15,
    211, 18, 76, 34, 207, 245, 134, 110, 46, 146, 11, 217, 5, 109, 216, 67,
    230>>,
    <<96, 67, 46, 252, 29, 210, 249, 169, 39, 14, 31, 43, 8, 83, 221, 116,
    169, 29, 27, 205, 249, 128, 230, 126, 134, 104, 117, 75, 181, 27, 118,
    131>>,
    Num(2028, 8))

Window2Retarget ==
  SampleHeader(2016,
    <<34, 34, 34, 34, 34, 34, 34, 34, 34, 34, 34, 34, 34, 34, 34, 34, 34, 34,
    34, 34, 34, 34, 34, 34, 34, 34, 34, 34, 34, 34, 34, 34>>,
    <<106, 55, 202, 221, 150, 55, 185, 224, 90, 248, 117, 244, 40, 76, 231,
    18, 109, 48, 185, 227, 155, 198, 252, 252, 90, 169, 203, 245, 240, 61, 7,
    210>>,
    <<0, 241, 83, 101>>, <<255, 255, 3, 30>>, <<120, 206, 131, 0>>)

Window2Chain ==
  <<
    SampleHeader(4021,
      <<247, 166, 144, 148, 112, 11, 229, 246, 40, 142, 244, 115, 174, 209,
      156, 221, 108, 238, 52, 133, 194, 127, 68, 228, 200, 119, 167, 221,
      146, 1, 0, 0>>,
      <<192, 197, 25, 103, 25, 220, 41, 240, 53, 241, 25, 156, 22, 197, 52,
      78, 27, 235, 151, 76, 131, 184, 208, 54, 99, 63, 121, 213, 163, 36,
      102, 220>>,
      <<144, 195, 120, 101>>, <<255, 255, 3, 30>>, <<233, 78, 189, 0>>),
    SampleHeader(4022,
      <<184, 117, 156, 4, 45, 120, 86, 65, 187, 106, 117, 165, 8, 180, 224,
      68, 126, 191, 134, 54, 36, 68, 32, 34, 88, 27, 73, 250, 61, 1, 0, 0>>,
      <<233, 219, 39, 9, 24, 22, 127, 2, 78, 49, 54, 49, 142, 253, 117, 105,
      66, 199, 27, 187, 249, 158, 247, 39, 242, 74, 75, 70, 17, 249, 113,
      120>>,
      <<232, 197, 120, 101>>, <<255, 255, 3, 30>>, <<141, 44, 29, 0>>),
    SampleHeader(4023,
      <<101, 111, 57, 152, 214, 0, 211, 51, 82, 26, 225, 223, 99, 103, 109,
      241, 182, 185, 175, 14, 1, 208, 226, 51, 70, 211, 144, 23, 68, 1, 0, 0>>,
      <<230, 109, 98, 106, 147, 230, 157, 209, 170, 182, 55, 8, 163, 63, 149,
      185, 157, 72, 13, 87, 111, 14, 226, 182, 228, 105, 184, 196, 65, 177,
      47, 98>>,
      <<64, 200, 120, 101>>, <<255, 255, 3, 30>>, <<201, 180, 10, 0>>),
    SampleHeader(4024,
      <<31, 196, 106, 201, 51, 6, 19, 0, 53, 222, 6, 170, 55, 196, 7, 144,
      186, 56, 179, 226, 253, 90, 67, 212, 241, 238, 88, 33, 3, 0, 0, 0>>,
      <<64, 89, 187, 170, 252, 60, 206, 99, 21, 60, 77, 137, 203, 58, 73,
      171, 36, 186, 128, 3, 1, 225, 26, 249, 7, 215, 195, 129, 51, 98, 76, 3>>,
      <<152, 202, 120, 101>>, <<255, 255, 3, 30>>, <<211, 41, 20, 0>>),
    SampleHeader(4025,
      <<52, 221, 183, 2, 245, 255, 34, 125, 53, 14, 2, 104, 124, 32, 55, 228,
      90, 94, 52, 161, 192, 133, 55, 152, 19, 109, 154, 70, 205, 3, 0, 0>>,
      <<17, 97, 62, 174, 170, 215, 242, 217, 36, 210, 239, 81, 136, 157, 84,
      248, 240, 161, 128, 8, 163, 40, 79, 185, 248, 114, 8, 163, 137, 19,
      153, 32>>,
      <<240, 204, 120, 101>>, <<255, 255, 3, 30>>, <<48, 71, 3, 0>>),
    SampleHeader(4026,
      <<186, 11, 76, 80, 115, 211, 70, 23, 227, 251, 87, 95, 116, 57, 203,
      240, 40, 141, 25, 147, 248, 59, 252, 252, 146, 43, 15, 148, 46, 2, 0,
      0>>,
      <<252, 148, 68, 150, 49, 19, 195, 141, 158, 233, 227, 173, 139, 190,
      238, 79, 184, 136, 154, 121, 119, 200, 166, 176, 91, 196, 71, 241, 17,
      28, 160, 226>>,
      <<72, 207, 120, 101>>, <<255, 255, 3, 30>>, <<14, 124, 9, 0>>),
    SampleHeader(4027,
      <<34, 122, 144, 107, 171, 83, 193, 234, 44, 129, 153, 76, 203, 122,
      201, 78, 29, 219, 174, 145, 119, 198, 29, 243, 254, 56, 243, 49, 19, 0,
      0, 0>>,
      <<250, 129, 54, 105, 92, 29, 119, 5, 246, 116, 29, 76, 18, 17, 133, 74,
      243, 249, 62, 175, 89, 166, 238, 197, 47, 168, 161, 39, 19, 141, 200,
      231>>,
      <<160, 209, 120, 101>>, <<255, 255, 3, 30>>, <<76, 151, 42, 0>>),
    SampleHeader(4028,
      <<229, 148, 207, 64, 57, 36, 130, 199, 229, 91, 73, 176, 86, 103, 124,
      101, 33, 244, 81, 230, 113, 151, 198, 166, 7, 129, 197, 226, 232, 1, 0,
      0>>,
      <<168, 85, 163, 254, 120, 131, 112, 245, 226, 81, 181, 142, 80, 157,
      47, 213, 96, 143, 43, 34, 200, 90, 231, 124, 2, 217, 81, 226, 237, 125,
      164, 254>>,
      <<248, 211, 120, 101>>, <<255, 255, 3, 30>>, <<64, 120, 12, 0>>),
    SampleHeader(4029,
      <<123, 59, 241, 112, 123, 243, 240, 68, 37, 5, 113, 188, 219, 135, 203,
      157, 127, 52, 14, 4, 27, 163, 247, 208, 113, 43, 151, 31, 213, 1, 0, 0>>,
      <<242, 160, 110, 219, 116, 245, 165, 123, 17, 10, 224, 232, 255, 141,
      34, 192, 87, 62, 91, 160, 140, 252, 110, 233, 211, 187, 27, 175, 118,
      155, 9, 133>>,
      <<80, 214, 120, 101>>, <<255, 255, 3, 30>>, <<185, 52, 103, 0>>),
    SampleHeader(4030,
      <<65, 151, 140, 132, 15, 213, 5, 25, 176, 85, 15, 58, 99, 119, 92, 143,
      79, 71, 181, 71, 143, 31, 7, 216, 227, 222, 100, 8, 31, 1, 0, 0>>,
      <<136, 61, 151, 32, 248, 218, 46, 181, 89, 78, 244, 8, 239, 11, 120,
      131, 96, 75, 146, 5, 240, 69, 175, 89, 139, 194, 140, 63, 142, 51, 237,
      52>>,
      <<168, 216, 120, 101>>, <<255, 255, 3, 30>>, <<183, 187, 47, 0>>),
    SampleHeader(4031,
      <<151, 207, 111, 90, 245, 120, 13, 10, 160, 80, 170, 119, 220, 65, 62,
      83, 149, 54, 243, 212, 52, 155, 108, 244, 75, 181, 159, 138, 94, 3, 0,
      0>>,
      <<147, 137, 155, 231, 206, 141, 109, 61, 102, 6, 138, 96, 147, 120,
      145, 149, 74, 191, 62, 235, 42, 217, 114, 139, 170, 9, 195, 200, 198,
      253, 119, 109>>,
      <<0, 219, 120, 101>>, <<255, 255, 3, 30>>, <<94, 92, 90, 0>>),
    SampleHeader(4032,
      <<3, 97, 137, 18, 136, 68, 20, 101, 38, 74, 18, 168, 185, 196, 143, 8,
      222, 158, 206, 203, 86, 94, 117, 80, 63, 89, 154, 200, 170, 3, 0, 0>>,
      <<69, 18, 175, 231, 247, 168, 112, 117, 64, 194, 180, 177, 138, 38, 49,
      114, 174, 66, 46, 232, 145, 38, 210, 33, 10, 212, 47, 35, 192, 130,
      135, 56>>,
      <<88, 221, 120, 101>>, <<254, 255, 7, 30>>, <<23, 124, 66, 0>>)
  >>

Window2Record ==
  ConsensusBlockPublicInput(
    <<0, 0, 3, 170, 200, 154, 89, 63, 80, 117, 94, 86, 203, 206, 158, 222, 8,
    143, 196, 185, 168, 18, 74, 38, 101, 20, 68, 136, 18, 137, 97, 3>>,
    <<0, 0, 3, 91, 21, 228, 95, 18, 207, 149, 152, 225, 170, 157, 240, 15,
    205, 204, 181, 4, 237, 200, 237, 46, 232, 51, 53, 209, 157, 37, 148, 97>>,
    <<0, 0, 2, 128, 5, 162, 216, 7, 241, 111, 112, 133, 181, 15, 88, 106,
    137, 112, 93, 143, 109, 251, 172, 73, 26, 74, 168, 88, 72, 192, 88, 171>>,
    <<0, 0, 0, 19, 49, 243, 56, 254, 243, 29, 198, 119, 145, 174, 219, 29,
    78, 201, 122, 203, 76, 153, 129, 44, 234, 193, 83, 171, 107, 144, 122,
    34>>,
    <<242, 160, 110, 219, 116, 245, 165, 123, 17, 10, 224, 232, 255, 141, 34,
    192, 87, 62, 91, 160, 140, 252, 110, 233, 211, 187, 27, 175, 118, 155, 9,
    133>>,
    Num(4032, 8))

Window3Retarget ==
  SampleHeader(2016,
    <<51, 51, 51, 51, 51, 51, 51, 51, 51, 51, 51, 51, 51, 51, 51, 51, 51, 51,
    51, 51, 51, 51, 51, 51, 51, 51, 51, 51, 51, 51, 51, 51>>,
    <<199, 23, 115, 129, 236, 38, 190, 111, 59, 246, 106, 200, 165, 101, 88,
    228, 39, 208, 223, 191, 254, 77, 251, 71, 214, 238, 93, 171, 249, 107,
    139, 152>>,
    <<0, 219, 120, 101>>, <<255, 255, 0, 29>>, <<0, 0, 0, 0>>)

Window3Chain ==
  <<
    SampleHeader(4021,
      <<159, 49, 20, 231, 102, 74, 68, 240, 72, 42, 176, 186, 60, 91, 9, 247,
      223, 174, 167, 198, 118, 20, 239, 91, 31, 37, 132, 12, 196, 149, 77,
      85>>,
      <<146, 212, 203, 8, 61, 234, 179, 146, 194, 79, 135, 79, 178, 64, 190,
      184, 140, 133, 68, 250, 138, 64, 222, 43, 18, 218, 159, 107, 136, 159,
      188, 135>>,
      <<56, 193, 120, 101>>, <<255, 255, 0, 29>>, <<0, 0, 0, 0>>),
    SampleHeader(4022,
      <<100, 203, 6, 239, 16, 243, 42, 206, 194, 205, 137, 106, 106, 248, 1,
      214, 119, 220, 181, 207, 229, 193, 71, 172, 120, 66, 149, 116, 114, 43,
      202, 132>>,
      <<244, 150, 56, 220, 115, 15, 171, 51, 242, 217, 68, 198, 51, 241, 49,
      157, 180, 173, 209, 206, 154, 67, 102, 143, 213, 58, 76, 160, 79, 51,
      29, 231>>,
      <<144, 195, 120, 101>>, <<255, 255, 0, 29>>, <<0, 0, 0, 0>>),
    SampleHeader(4023,
      <<50, 126, 181, 241, 169, 250, 28, 177, 131, 18, 134, 172, 127, 121,
      226, 72, 49, 90, 96, 19, 244, 131, 94, 38, 109, 255, 115, 200, 80, 90,
      130, 70>>,
      <<157, 230, 7, 189, 39, 222, 165, 141, 35, 139, 197, 63, 251, 36, 167,
      184, 15, 175, 15, 164, 0, 191, 83, 159, 180, 139, 125, 230, 164, 202,
      35, 201>>,
      <<232, 197, 120, 101>>, <<255, 255, 0, 29>>, <<0, 0, 0, 0>>),
    SampleHeader(4024,
      <<89, 116, 145, 130, 234, 175, 191, 86, 117, 210, 134, 127, 248, 107,
      157, 86, 141, 103, 11, 244, 186, 211, 63, 61, 35, 238, 229, 42, 202,
      151, 153, 112>>,
      <<106, 205, 227, 99, 124, 161, 36, 45, 115, 209, 144, 163, 171, 84, 68,
      23, 124, 145, 125, 19, 148, 82, 167, 197, 144, 153, 172, 160, 244, 196,
      187, 184>>,
      <<64, 200, 120, 101>>, <<255, 255, 0, 29>>, <<0, 0, 0, 0>>),
    SampleHeader(4025,
      <<130, 99, 215, 63, 150, 107, 167, 38, 147, 53, 210, 117, 159, 153,
      147, 9, 16, 213, 63, 200, 80, 151, 223, 152, 247, 22, 248, 230, 39, 15,
      4, 157>>,
      <<97, 95, 114, 201, 160, 105, 82, 64, 229, 179, 28, 171, 218, 70, 229,
      138, 71, 97, 165, 225, 162, 99, 119, 69, 1, 190, 236, 192, 128, 212,
      59, 125>>,
      <<152, 202, 120, 101>>, <<255, 255, 0, 29>>, <<0, 0, 0, 0>>),
    SampleHeader(4026,
      <<153, 16, 25, 16, 156, 128, 13, 17, 1, 206, 243, 54, 104, 212, 57,
      109, 170, 54, 109, 75, 170, 148, 60, 180, 16, 68, 187, 73, 191, 56, 15,
      184>>,
      <<160, 118, 119, 241, 201, 76, 86, 49, 139, 89, 60, 245, 151, 185, 247,
      229, 79, 80, 251, 22, 130, 110, 63, 116, 176, 66, 33, 243, 67, 255, 68,
      33>>,
      <<240, 204, 120, 101>>, <<255, 255, 0, 29>>, <<0, 0, 0, 0>>),
    SampleHeader(4027,
      <<142, 61, 202, 253, 116, 72, 134, 73, 189, 128, 7, 53, 73, 143, 225,
      15, 148, 102, 157, 85, 192, 177, 180, 134, 11, 98, 220, 67, 24, 249,
      182, 162>>,
      <<217, 128, 164, 233, 219, 210, 104, 106, 45, 5, 56, 229, 178, 206,
      139, 234, 133, 6, 234, 93, 58, 12, 242, 84, 2, 252, 157, 51, 67, 206,
      42, 156>>,
      <<72, 207, 120, 101>>, <<255, 255, 0, 29>>, <<0, 0, 0, 0>>),
    SampleHeader(4028,
      <<150, 194, 71, 137, 217, 132, 219, 145, 161, 247, 241, 95, 112, 254,
      84, 239, 111, 249, 159, 176, 159, 116, 199, 116, 55, 133, 243, 193, 49,
      94, 156, 48>>,
      <<222, 163, 245, 69, 87, 165, 53, 136, 191, 5, 197, 201, 226, 22, 232,
      182, 186, 228, 85, 11, 102, 198, 145, 135, 52, 243, 89, 225, 250, 226,
      4, 24>>,
      <<160, 209, 120, 101>>, <<255, 255, 0, 29>>, <<0, 0, 0, 0>>),
    SampleHeader(4029,
      <<92, 52, 131, 186, 86, 0, 11, 25, 15, 55, 69, 10, 196, 237, 166, 179,
      129, 89, 227, 230, 101, 2, 144, 160, 157, 103, 130, 10, 175, 69, 240,
      114>>,
      <<189, 130, 91, 68, 244, 162, 217, 244, 153, 252, 168, 83, 122, 76,
      156, 207, 202, 196, 226, 31, 23, 199, 78, 12, 15, 56, 227, 251, 229,
      45, 248, 200>>,
      <<248, 211, 120, 101>>, <<255, 255, 0, 29>>, <<0, 0, 0, 0>>),
    SampleHeader(4030,
      <<10, 107, 166, 198, 235, 32, 216, 9, 25, 240, 55, 28, 64, 33, 46, 237,
      20, 244, 127, 103, 27, 18, 135, 186, 111, 106, 255, 136, 203, 238, 230,
      196>>,
      <<28, 25, 150, 103, 48, 90, 252, 112, 98, 139, 47, 155, 78, 115, 165,
      123, 107, 110, 170, 210, 160, 73, 82, 29, 164, 168, 51, 187, 25, 225,
      102, 128>>,
      <<80, 214, 120, 101>>, <<255, 255, 0, 29>>, <<0, 0, 0, 0>>),
    SampleHeader(4031,
      <<113, 203, 41, 126, 245, 168, 136, 115, 56, 221, 179, 253, 87, 234,
      112, 33, 188, 195, 222, 143, 44, 89, 133, 18, 221, 17, 150, 230, 213,
      183, 95, 1>>,
      <<86, 38, 174, 0, 220, 139, 240, 206, 249, 0, 200, 116, 215, 170, 204,
      92, 132, 144, 222, 28, 227, 219, 123, 128, 27, 34, 64, 91, 44, 242,
      139, 72>>,
      <<168, 216, 120, 101>>, <<255, 255, 0, 29>>, <<0, 0, 0, 0>>),
    SampleHeader(4032,
      <<192, 188, 51, 1, 252, 250, 104, 107, 200, 213, 177, 25, 132, 198,
      125, 104, 87, 20, 238, 38, 231, 135, 159, 55, 233, 186, 88, 189, 213,
      174, 5, 161>>,
      <<87, 182, 22, 172, 10, 220, 212, 196, 210, 236, 22, 255, 119, 167,
      249, 216, 76, 119, 171, 105, 161, 244, 143, 120, 15, 83, 41, 224, 38,
      192, 124, 47>>,
      <<88, 221, 120, 101>>, <<173, 222, 13, 30>>, <<150, 255, 18, 0>>)
  >>

Window3Record ==
  ConsensusBlockPublicInput(
    <<161, 5, 174, 213, 189, 88, 186, 233, 55, 159, 135, 231, 38, 238, 20,
    87, 104, 125, 198, 132, 25, 177, 213, 200, 107, 104, 250, 252, 1, 51,
    188, 192>>,
    <<0, 0, 3, 201, 79, 139, 155, 35, 9, 17, 99, 102, 138, 84, 228, 141, 3,
    254, 246, 89, 200, 165, 49, 18, 173, 205, 90, 104, 212, 29, 107, 98>>,
    <<64, 48, 150, 11, 246, 37, 70, 129, 70, 132, 209, 170, 157, 50, 248, 27,
    225, 10, 246, 199, 65, 176, 124, 153, 22, 4, 67, 97, 63, 123, 217, 48>>,
    <<162, 182, 249, 24, 67, 220, 98, 11, 134, 180, 177, 192, 85, 157, 102,
    148, 15, 225, 143, 73, 53, 7, 128, 189, 73, 134, 72, 116, 253, 202, 61,
    142>>,
    <<189, 130, 91, 68, 244, 162, 217, 244, 153, 252, 168, 83, 122, 76, 156,
    207, 202, 196, 226, 31, 23, 199, 78, 12, 15, 56, 227, 251, 229, 45, 248,
    200>>,
    Num(4032, 8))

\* the headers, retarget header and public record of sample window w
Window(w) ==
  IF w = 1 THEN [chain |-> Window1Chain, retarget |-> Window1Retarget,
                 record |-> Window1Record]
  ELSE IF w = 2 THEN [chain |-> Window2Chain, retarget |-> Window2Retarget,
                      record |-> Window2Record]
  ELSE [chain |-> Window3Chain, retarget |-> Window3Retarget, record |-> Window3Record]

HeaderFields == {"height", "version", "prev_blockhash", "merkle_root", "time", "bits", "nonce"}

RecordFields ==
  {"prev_block_hash", "proposed_block_hash", "retarget_block_hash", "median_block_hash",
   "m_deep_tx_merkle_root", "proposed_block_height"}

\* a value of the same width that differs from v
Changed(v) ==
  IF Len(v) = 8 THEN UAddSmallWrap(v, 1) ELSE [v EXCEPT ![1] = (v[1] + 1) % 256]

\* positions of the window whose headers are changed: the oldest, the one the
\* median rule picks in the samples, the deep one, the previous and the last
ChangedPositions == {1, 5, 9, 11, 12}

Changes ==
  { [on |-> "none", pos |-> 0, field |-> ""],
    [on |-> "drop_oldest", pos |-> 0, field |-> ""],
    [on |-> "prepend", pos |-> 0, field |-> ""] }
  \cup { [on |-> "chain", pos |-> p, field |-> f] : p \in ChangedPositions, f \in HeaderFields }
  \cup { [on |-> "retarget", pos |-> 0, field |-> f] : f \in HeaderFields }
  \cup { [on |-> "record", pos |-> 0, field |-> f] : f \in RecordFields }
  \cup { [on |-> "last_rehashed", pos |-> 0, field |-> f] : f \in HeaderFields \ {"height"} }
  \cup { [on |-> "retimed", pos |-> 0, field |-> f] : f \in {"equal", "later"} }

\* the chain with the headers at the positions set to the time
Retimed(chain, positions, time) ==
  [i \in 1..Len(chain) |->
     IF i \in positions THEN [chain[i] EXCEPT !.time = time] ELSE chain[i]]

\* window 1 with the late headers before the previous one retimed: "equal"
\* gives five of them the time of the last header, so that the sixth of the
\* sorted eleven is the earliest header of that time; "later" gives six of
\* them a time one second above it
RetimedChain(chain, how) ==
  IF how = "equal"
    THEN Retimed(chain, {5, 6, 7, 9, 10}, chain[Len(chain)].time)
  ELSE Retimed(chain, {5, 6, 7, 8, 9, 10}, Changed(chain[Len(chain)].time))

\* the input of window w after change c; "last_rehashed" changes a field of
\* the last header and puts its new hash into the public record
ChangedInput(w, c) ==
  LET base == Window(w)
  IN  [window |-> w, change |-> c,
       chain |->
         IF c.on = "chain"
           THEN [base.chain EXCEPT ![c.pos] =
                   [@ EXCEPT ![c.field] = Changed(@)]]
         ELSE IF c.on = "last_rehashed"
           THEN [base.chain EXCEPT ![Len(base.chain)] =
                   [@ EXCEPT ![c.field] = Changed(@)]]
         ELSE IF c.on = "retimed" THEN RetimedChain(base.chain, c.field)
         ELSE IF c.on = "drop_oldest" THEN Tail(base.chain)
         ELSE IF c.on = "prepend"
           THEN << [base.chain[1] EXCEPT !.height = Num(2000, 8)] >> \o base.chain
         ELSE base.chain,
       retarget |->
         IF c.on = "retarget" THEN [base.retarget EXCEPT ![c.field] = Changed(@)]
         ELSE base.retarget,
       record |->
         IF c.on = "record" THEN [base.record EXCEPT ![c.field] = Changed(@)]
         ELSE IF c.on = "retimed"
           THEN [base.record EXCEPT !.median_block_hash =
                   CircuitBlock_compute_block_hash(RetimedChain(base.chain, c.field)[5])]
         ELSE IF c.on = "last_rehashed"
           THEN [base.record EXCEPT !.proposed_block_hash =
                   CircuitBlock_compute_block_hash(
                     [base.chain[Len(base.chain)] EXCEPT ![c.field] = Changed(@)])]
         ELSE base.record]

BlockInit ==
  /\ ExtraIdle
  /\ CodecIdle
  /\ HeaderIdle
  /\ ConsensusIdle
  /\ TargetIdle
  /\ b_in \in { ChangedInput(1, c) : c \in Changes }
                \cup { ChangedInput(w, [on |-> "none", pos |-> 0, field |-> ""]) : w \in {2, 3} }
  /\ b_out = NoBlockOut

\* the validator runs on the input, in a build with or without overflow checks
ValidateBlock ==
  /\ ~b_out.done
  /\ \E overflow_checks \in BOOLEAN :
       b_out' = [done |-> TRUE, overflow_checks |-> overflow_checks,
                 result |-> validate_block(b_in.chain, b_in.retarget, b_in.record,
                                           overflow_checks)]
  /\ UNCHANGED <<b_in, CodecVars, HeaderVars, ConsensusVars, TargetVars, ExtraVars>>

BlockNext == ValidateBlock

SpecBlock == BlockInit /\ [][BlockNext]_vars

\* the nine checks of the validator on input x, numbered as in its source,
\* with heights, times and targets taken as unbounded naturals
NineCheck(x, k) ==
  LET n    == Len(x.chain)
      last == x.chain[n]
      prev == x.chain[n - 1]
      deep == x.chain[n - 3]
      h    == x.record.proposed_block_height
      times == [i \in 1..11 |-> from_le_bytes(x.chain[n - 12 + i].time)]
      medians ==
        { i \in 1..11 :
            /\ Cardinality({ j \in 1..11 : ULt(times[j], times[i]) })
                 + Cardinality({ j \in 1..(i - 1) : times[j] = times[i] }) = 5 }
      median == x.chain[n - 12 + (CHOOSE i \in medians : TRUE)]
      old  == bits_to_target(x.retarget.bits)
      t0   == from_le_bytes(x.retarget.time)
      t1   == from_le_bytes(prev.time)
      wide == UDivSmall(UMulWide(old, USubWrap(t1, t0)), 1209600)
      bits == from_le_bytes(last.bits)
      mantissa == IF bits[2] > 127 THEN <<0, 0, bits[2], bits[3]>>
                  ELSE <<0, bits[2], bits[3], bits[4]>>
  IN  CASE k = 1 -> n >= 12
        [] k = 2 -> /\ ULe(Num(12, 8), h)
                    /\ ULe(x.retarget.height, h)
                    /\ h = last.height
                    /\ ~UAddSmallCarry(prev.height, 1, 0) /\ h = UAddSmallWrap(prev.height, 1)
                    /\ ~UAddSmallCarry(deep.height, 3, 0) /\ h = UAddSmallWrap(deep.height, 3)
        [] k = 3 -> x.record.proposed_block_hash = CircuitBlock_compute_block_hash(last)
        [] k = 4 -> /\ x.record.prev_block_hash = CircuitBlock_compute_block_hash(prev)
                    /\ x.record.prev_block_hash = Reverse(last.prev_blockhash)
        [] k = 5 -> /\ x.record.retarget_block_hash
                         = CircuitBlock_compute_block_hash(x.retarget)
                    /\ x.record.retarget_block_hash # x.record.proposed_block_hash
        [] k = 6 -> IF UModSmall(h, 2016) = 0
                      THEN /\ ULe(t0, t1)
                           /\ SubSeq(wide, 1, 4) = Zeros(4)
                           /\ IF bits[1] <= 3
                                THEN SubSeq(wide, 5, 36)
                                       = ShrBytes(U256_from_u32(mantissa), 3 - bits[1])
                                ELSE ShrBytes(SubSeq(wide, 5, 36), bits[1] - 3)
                                       = U256_from_u32(mantissa)
                      ELSE x.retarget.bits = last.bits
        [] k = 7 -> ULe(x.record.proposed_block_hash, bits_to_target(last.bits))
        [] k = 8 -> /\ x.record.median_block_hash = CircuitBlock_compute_block_hash(median)
                    /\ ULe(from_le_bytes(median.time), from_le_bytes(last.time))
        [] k = 9 -> x.record.m_deep_tx_merkle_root = deep.merkle_root

FailedChecks(x) ==
  IF ~NineCheck(x, 1) THEN {1} ELSE { k \in 2..9 : ~NineCheck(x, k) }

\* ---------------------------------------------------------------------
\* C4: validate_block returns normally if and only if all nine checks hold;
\* when a check fails the call aborts.
\* ---------------------------------------------------------------------
C4_ReturnsIffNineChecks ==
  b_out.done => (b_out.result = "ok" <=> FailedChecks(b_in) = {})

\* ---------------------------------------------------------------------
\* C5: validate_block succeeds on a valid window, and changing one field of
\* one header of the window, of the retarget header or of the public record
\* makes it fail with exactly one of the nine checks failing.
\* ---------------------------------------------------------------------
C5_SingleChangeFailsOneCheck ==
  (b_out.done /\ b_in.window = 1) =>
    /\ b_in.change.on = "none" => b_out.result = "ok"
    /\ b_in.change.on \in {"chain", "retarget", "record"} =>
         /\ b_out.result # "ok"
         /\ Cardinality(FailedChecks(b_in)) = 1

RECURSIVE InsertByTime(_, _, _)
\* b put into the sequence sorted by time, behind every header whose time
\* is not later than its own
InsertByTime(sorted, b, k) ==
  IF k > Len(sorted) \/ ULt(from_le_bytes(b.time), from_le_bytes(sorted[k].time))
    THEN SubSeq(sorted, 1, k - 1) \o <<b>> \o SubSeq(sorted, k, Len(sorted))
  ELSE InsertByTime(sorted, b, k + 1)

RECURSIVE SortedByTime(_)
\* the headers sorted by time, headers of equal time in their given order
SortedByTime(blocks) ==
  IF blocks = <<>> THEN <<>>
  ELSE InsertByTime(SortedByTime(SubSeq(blocks, 1, Len(blocks) - 1)),
                    blocks[Len(blocks)], 1)

\* the sixth of the eleven headers before the last one, sorted by time
ReferenceMedian(chain) ==
  SortedByTime(SubSeq(chain, Len(chain) - 11, Len(chain) - 1))[6]

\* ---------------------------------------------------------------------
\* C23: the eleven headers before the proposed one (whatever the length of
\* the chain, at least 12) are stably sorted by time and the one at index 5
\* is the median; validate_block succeeds only if the record's median hash
\* is the hash of that header and the proposed header's time is not below
\* its time; a proposed time equal to the median time is accepted.
\* ---------------------------------------------------------------------
C23_MedianRule ==
  (b_out.done /\ Len(b_in.chain) >= 12) =>
    LET med  == ReferenceMedian(b_in.chain)
        last == b_in.chain[Len(b_in.chain)]
    IN  /\ b_out.result = "ok" =>
             /\ b_in.record.median_block_hash = CircuitBlock_compute_block_hash(med)
             /\ ULe(from_le_bytes(med.time), from_le_bytes(last.time))
        /\ (b_in.change.on = "retimed" /\ b_in.change.field = "equal") =>
             /\ med.time = last.time
             /\ b_out.result = "ok"
        /\ (b_in.change.on = "retimed" /\ b_in.change.field = "later") =>
             /\ ULt(from_le_bytes(last.time), from_le_bytes(med.time))
             /\ b_out.result = "timestamp"

C23_Witness ==
  /\ b_out.done
  /\ b_out.result = "ok"
  /\ b_in.change.on = "retimed"
  /\ ReferenceMedian(b_in.chain).time = b_in.chain[Len(b_in.chain)].time
  /\ ReferenceMedian(b_in.chain) = b_in.chain[5]
  /\ b_in.chain[6].time = b_in.chain[5].time

\* a chain of 13 headers: the eleven are counted from its end
C23_LongerChain ==
  /\ b_out.done
  /\ b_out.result = "ok"
  /\ Len(b_in.chain) = 13
  /\ ReferenceMedian(b_in.chain) = b_in.chain[6]

\* the headers at the last four positions are linked by previous-hash
LastFourLinked(chain) ==
  \A i \in (Len(chain) - 2)..Len(chain) :
    to_little_endian_bytes(chain[i].prev_blockhash)
      = CircuitBlock_compute_block_hash(chain[i - 1])

\* ---------------------------------------------------------------------
\* C24: if validate_block succeeds, the deep-confirmation header is the
\* third ancestor of the proposed header: the headers at the last four
\* positions of proposed_chain are linked by previous-hash.
\* ---------------------------------------------------------------------
C24_DeepHeaderIsAncestor ==
  (b_out.done /\ b_out.result = "ok") => LastFourLinked(b_in.chain)

\* what the validator does hold to: heights in sequence, and the link of the
\* last header to the one before it
C24_HeightsAndLastLink ==
  (b_out.done /\ b_out.result = "ok") =>
    LET n == Len(b_in.chain)
    IN  /\ b_in.chain[n].height = UAddSmallWrap(b_in.chain[n - 1].height, 1)
        /\ b_in.chain[n].height = UAddSmallWrap(b_in.chain[n - 3].height, 3)
        /\ to_little_endian_bytes(b_in.chain[n].prev_blockhash)
             = CircuitBlock_compute_block_hash(b_in.chain[n - 1])

C24_UnlinkedAccepted ==
  /\ b_out.done
  /\ b_out.result = "ok"
  /\ b_in.change.on = "chain"
  /\ b_in.change.pos = Len(b_in.chain) - 3
  /\ ~LastFourLinked(b_in.chain)

\* ---------------------------------------------------------------------
\* C25: if validate_block succeeds, the retarget header starts a difficulty
\* epoch: its height is a multiple of 2016, the start of the epoch of the
\* proposed height when that is not a multiple of 2016 and 2016 below the
\* proposed height when it is.
\* ---------------------------------------------------------------------
C25_RetargetStartsEpoch ==
  (b_out.done /\ b_out.result = "ok") =>
    LET h == b_in.record.proposed_block_height
        r == b_in.retarget.height
    IN  /\ UModSmall(r, 2016) = 0
        /\ ULe(r, h)
        /\ USubWrap(h, r) = Num(IF UModSmall(h, 2016) = 0 THEN 2016
                                ELSE UModSmall(h, 2016), 8)

C25_OtherHeightAccepted ==
  /\ b_out.done
  /\ b_out.result = "ok"
  /\ b_in.change.on = "retarget"
  /\ b_in.change.field = "height"
  /\ UModSmall(b_in.retarget.height, 2016) # 0

\* ---------------------------------------------------------------------
\* Merkle engine: core/src/bitcoin.rs (hash_pairs, get_merkle_root) and
\* programs/src/lib.rs (generate_merkle_proof_and_root)
\* ---------------------------------------------------------------------
\* the double hash of the two nodes, each byte-reversed, the result reversed
hash_pairs(hash_1, hash_2) == double_sha256_hash(Reverse(hash_1) \o Reverse(hash_2))

\* mutant: the last node of an odd level is paired with the zero node
right_node_zero(current_level, i) ==
  IF i + 1 < Len(current_level) THEN current_level[i + 2] ELSE Zeros(32)

\* `right` of the pair starting at index i (from 0): the next node, or the
\* left node itself when the level ends there
right_node(current_level, i) ==
  IF i + 1 < Len(current_level) THEN current_level[i + 2] ELSE current_level[i + 1]

RECURSIVE root_inner_loop(_, _, _)
\* the inner while of get_merkle_root: next_level after the pairs from i on
root_inner_loop(current_level, i, next_level) ==
  IF ~(i < Len(current_level)) THEN next_level
  ELSE root_inner_loop(current_level, i + 2,
         Append(next_level, hash_pairs(current_level[i + 1], right_node(current_level, i))))

RECURSIVE root_outer_loop(_)
\* the outer while of get_merkle_root
root_outer_loop(current_level) ==
  IF ~(Len(current_level) > 1) THEN current_level
  ELSE root_outer_loop(root_inner_loop(current_level, 0, <<>>))

\* get_merkle_root: the root, or the panic of current_level[0] on no leaves
get_merkle_root(leaves) ==
  IF Len(leaves) = 0 THEN [panic |-> "index_out_of_bounds", root |-> <<>>]
  ELSE [panic |-> "", root |-> root_outer_loop(leaves)[1]]

MerkleProofStep(hash, direction) == [hash |-> hash, direction |-> direction]

\* mutant: the step always records the right node
proof_step_right(i, desired_index, left, right) == MerkleProofStep(right, TRUE)

\* the step pushed for the pair at i that holds the desired node
proof_step(i, desired_index, left, right) ==
  IF i = desired_index THEN MerkleProofStep(right, TRUE)
  ELSE MerkleProofStep(left, FALSE)

RECURSIVE proof_inner_loop(_, _)
\* the inner while of generate_merkle_proof_and_root;
\* s = [i, next_level, proof, desired_index]
proof_inner_loop(current_level, s) ==
  IF ~(s.i < Len(current_level)) THEN s
  ELSE LET left  == current_level[s.i + 1]
           right == right_node(current_level, s.i)
           hit   == s.i = s.desired_index \/ s.i + 1 = s.desired_index
       IN  proof_inner_loop(current_level,
             [i             |-> s.i + 2,
              next_level    |-> Append(s.next_level, hash_pairs(left, right)),
              proof         |-> IF hit
                                  THEN Append(s.proof,
                                              proof_step(s.i, s.desired_index, left, right))
                                  ELSE s.proof,
              desired_index |-> IF hit THEN s.desired_index \div 2 ELSE s.desired_index])

\* `current_level = next_level` after the inner while ended in state t
proof_next_level(t) ==
  [current_level |-> t.next_level, proof |-> t.proof, desired_index |-> t.desired_index]

RECURSIVE proof_outer_loop(_)
\* the outer while; s = [current_level, proof, desired_index]
proof_outer_loop(s) ==
  IF ~(Len(s.current_level) > 1) THEN s
  ELSE proof_outer_loop(
         proof_next_level(
           proof_inner_loop(s.current_level,
             [i |-> 0, next_level |-> <<>>, proof |-> s.proof,
              desired_index |-> s.desired_index])))

\* the pair returned once the outer while ended in state s
proof_and_root(s) == [panic |-> "", proof |-> s.proof, root |-> s.current_level[1]]

\* iter().position(): the first index (from 0) holding the leaf, -1 for None
position(leaves, desired_leaf) ==
  IF \E k \in 1..Len(leaves) : leaves[k] = desired_leaf
    THEN (CHOOSE k \in 1..Len(leaves) :
            /\ leaves[k] = desired_leaf
            /\ \A j \in 1..(k - 1) : leaves[j] # desired_leaf) - 1
  ELSE -1

\* generate_merkle_proof_and_root: (proof, root), or the panic of expect
generate_merkle_proof_and_root(leaves, desired_leaf) ==
  IF position(leaves, desired_leaf) < 0
    THEN [panic |-> "desired_leaf_not_found", proof |-> <<>>, root |-> <<>>]
  ELSE proof_and_root(
         proof_outer_loop([current_level |-> leaves, proof |-> <<>>,
                           desired_index |-> position(leaves, desired_leaf)]))

RECURSIVE fold_proof(_, _, _)
\* the check of an inclusion proof: the node reached from `current` through
\* the steps k.. of the proof
fold_proof(current, proof, k) ==
  IF k > Len(proof) THEN current
  ELSE fold_proof(IF proof[k].direction THEN hash_pairs(current, proof[k].hash)
                  ELSE hash_pairs(proof[k].hash, current),
                  proof, k + 1)

\* ---------------------------------------------------------------------
\* Merkle engine on sample leaves: proof generation, then the check of the
\* proof as presented, untouched or with one part replaced
\* ---------------------------------------------------------------------
\* the largest number of leaves of a sample tree
MaxLeaves == 5

\* a leaf that is in no sample list
AbsentLeaf == Digest(99)

LeafLists ==
  { [k \in 1..n |-> Digest(k)] : n \in 0..MaxLeaves }
    \cup { <<Digest(1), Digest(1)>>, <<Digest(1), Digest(2), Digest(2)>> }

MerkleInputs ==
  UNION { { [leaves |-> l, desired_leaf |-> d] :
              d \in { l[k] : k \in 1..Len(l) } \cup { AbsentLeaf } } : l \in LeafLists }

\* the byte positions a replaced value differs at
TamperBytes == { 1, 32 }

\* x with the byte at pos replaced by a different byte
OtherValue(x, pos) == [x EXCEPT ![pos] = (x[pos] + 1) % 256]

Tampers(proof) ==
  { [kind |-> "none", step |-> 0, pos |-> 0] }
    \cup { [kind |-> k, step |-> 0, pos |-> p] : k \in { "leaf", "root" }, p \in TamperBytes }
    \cup { [kind |-> "hash", step |-> j, pos |-> p] : j \in 1..Len(proof), p \in TamperBytes }
    \cup { [kind |-> "direction", step |-> j, pos |-> 0] : j \in 1..Len(proof) }

\* what the checker is handed: leaf, proof and root with the tamper applied
Presented(leaf, proof, root, t) ==
  [leaf  |-> IF t.kind = "leaf" THEN OtherValue(leaf, t.pos) ELSE leaf,
   root  |-> IF t.kind = "root" THEN OtherValue(root, t.pos) ELSE root,
   proof |-> [j \in 1..Len(proof) |->
                IF t.kind = "hash" /\ t.step = j
                  THEN MerkleProofStep(OtherValue(proof[j].hash, t.pos), proof[j].direction)
                ELSE IF t.kind = "direction" /\ t.step = j
                  THEN MerkleProofStep(proof[j].hash, ~proof[j].direction)
                ELSE proof[j]]]

MerkleInit ==
  /\ CoreIdle
  /\ HostIdle
  /\ MembershipIdle
  /\ AggregationIdle
  /\ ProverIdle
  /\ m_in \in MerkleInputs
  /\ m_out = NoMerkleOut

\* the host builds the proof and the root of the leaves, and the root again
\* with get_merkle_root
GenerateProof ==
  /\ ~m_out.done
  /\ m_out' = [done |-> TRUE, stage |-> "generated",
               generated |-> generate_merkle_proof_and_root(m_in.leaves, m_in.desired_leaf),
               merkle_root |-> get_merkle_root(m_in.leaves)]
  /\ UNCHANGED <<m_in, CoreVars, HostVars, MembershipVars, AggregationVars, ProverVars>>

\* the record of a check: what was presented and the node the fold reached
CheckRecord(t, given) ==
  [done |-> TRUE, stage |-> "checked", generated |-> m_out.generated,
   merkle_root |-> m_out.merkle_root, tamper |-> t, presented |-> given,
   fold |-> fold_proof(given.leaf, given.proof, 1)]

\* the proof is checked as presented
CheckProof ==
  /\ m_out.done
  /\ m_out.stage = "generated"
  /\ m_out.generated.panic = ""
  /\ \E t \in Tampers(m_out.generated.proof) :
       m_out' = CheckRecord(t, Presented(m_in.desired_leaf, m_out.generated.proof,
                                         m_out.generated.root, t))
  /\ UNCHANGED <<m_in, CoreVars, HostVars, MembershipVars, AggregationVars, ProverVars>>

MerkleNext == GenerateProof \/ CheckProof

SpecMerkle == MerkleInit /\ [][MerkleNext]_vars

\* the next level of the reference tree: node k of it is the hash of the
\* nodes 2k - 1 and 2k, the last node of an odd level being paired with itself
ReferenceLevel(level) ==
  [k \in 1..((Len(level) + 1) \div 2) |->
     hash_pairs(level[2 * k - 1],
                IF 2 * k <= Len(level) THEN level[2 * k] ELSE level[2 * k - 1])] \o <<>>

RECURSIVE ReferenceRoot(_)
ReferenceRoot(level) ==
  IF Len(level) = 1 THEN level[1] ELSE ReferenceRoot(ReferenceLevel(level))

RECURSIVE TreeLevels(_)
\* the number of levels above n leaves
TreeLevels(n) == IF n <= 1 THEN 0 ELSE 1 + TreeLevels((n + 1) \div 2)

DesiredIsLeaf == \E k \in 1..Len(m_in.leaves) : m_in.leaves[k] = m_in.desired_leaf

\* C11: for a non-empty list of leaves and a desired leaf in it, the root
\* returned by generate_merkle_proof_and_root, the root of get_merkle_root
\* and the reference root built level by level are the same
C11_RootsAgree ==
  (m_out.done /\ m_out.stage = "generated" /\ DesiredIsLeaf) =>
    /\ m_out.generated.panic = ""
    /\ m_out.merkle_root.panic = ""
    /\ m_out.generated.root = m_out.merkle_root.root
    /\ m_out.merkle_root.root = ReferenceRoot(m_in.leaves)

\* the roots were computed for five leaves and the last of them, the node
\* paired with itself on two levels
C11_Witness ==
  /\ m_out.done
  /\ m_out.stage = "generated"
  /\ Len(m_in.leaves) = 5
  /\ m_in.desired_leaf = m_in.leaves[5]
  /\ m_out.generated.panic = ""
  /\ m_out.generated.root = m_out.merkle_root.root

Checked == m_out.done /\ m_out.stage = "checked"

\* the node the presented proof combines with the hash of its step j
NodeAtStep(j) == fold_proof(m_out.presented.leaf, SubSeq(m_out.presented.proof, 1, j - 1), 1)

\* C12 as stated: the untouched proof folds to the root in one step per
\* level, and every replacement of the leaf, of a step's hash or direction,
\* or of the root makes the fold differ from the root
C12_AnyReplacementFails ==
  Checked =>
    /\ m_out.tamper.kind = "none" =>
         /\ m_out.fold = m_out.presented.root
         /\ Len(m_out.presented.proof) = TreeLevels(Len(m_in.leaves))
    /\ m_out.tamper.kind # "none" => m_out.fold # m_out.presented.root

\* C12 amended: the untouched proof folds to the root in one step per level;
\* a replaced leaf, step hash or root makes the fold differ from the root; a
\* replaced direction makes it differ exactly when the hash of that step is
\* not the node it is combined with
C12_ReplacementFails ==
  Checked =>
    /\ m_out.tamper.kind = "none" =>
         /\ m_out.fold = m_out.presented.root
         /\ Len(m_out.presented.proof) = TreeLevels(Len(m_in.leaves))
    /\ m_out.tamper.kind \in { "leaf", "hash", "root" } =>
         m_out.fold # m_out.presented.root
    /\ m_out.tamper.kind = "direction" =>
         (m_out.fold # m_out.presented.root
            <=> m_out.presented.proof[m_out.tamper.step].hash # NodeAtStep(m_out.tamper.step))

\* a proof of three steps was checked with the hash of its last step replaced
C12_Witness ==
  /\ Checked
  /\ Len(m_out.generated.proof) = 3
  /\ m_out.tamper.kind = "hash"
  /\ m_out.tamper.step = 3
  /\ m_out.fold # m_out.presented.root

\* ---------------------------------------------------------------------
\* core/src/babylon.rs: KVPair, verify_membership_proof, MembershipOutput;
\* programs/baby_membership_program/src/main.rs
\* ---------------------------------------------------------------------
KVPair(keys, value) == [keys |-> keys, value |-> value]

\* into_merkle_path_and_value: the path of the key segments, and the value
into_merkle_path_and_value(self) == <<self.keys, self.value>>

\* a raw proof is held by what it is: bytes that decode or not, and the
\* root, path and value the decoded proof links
RawMerkleProof(decodes, root, keys, value) ==
  [decodes |-> decodes, root |-> root, keys |-> keys, value |-> value]

\* MerkleProof::decode_vec: <<proof>>, or <<>> for Err
MerkleProof_decode_vec(raw_merkle_proof) ==
  IF raw_merkle_proof.decodes
    THEN << [root |-> raw_merkle_proof.root, keys |-> raw_merkle_proof.keys,
             value |-> raw_merkle_proof.value] >>
  ELSE <<>>

\* MerkleProof::verify_membership: Ok exactly when the proof links the value
\* at the path to the root
verify_membership(merkle_proof, commitment_root, merkle_path, value) ==
  /\ merkle_proof.root = commitment_root
  /\ merkle_proof.keys = merkle_path
  /\ merkle_proof.value = value

\* mutant: a pair that does not decode or verify is passed over
verify_pair_lenient(commitment_root, pair) == "ok"

\* the body of the for loop on one pair: "ok", or the expect that panics
verify_pair(commitment_root, pair) ==
  IF MerkleProof_decode_vec(pair[2]) = <<>> THEN "Failed to decode Merkle proof"
  ELSE IF ~verify_membership(MerkleProof_decode_vec(pair[2])[1], commitment_root,
                             into_merkle_path_and_value(pair[1])[1],
                             into_merkle_path_and_value(pair[1])[2])
    THEN "Failed to verify membership"
  ELSE "ok"

RECURSIVE verify_membership_loop(_, _, _)
\* the for loop from pair k on: the first panic, or "ok" at the end
verify_membership_loop(commitment_root, proofs, k) ==
  IF k > Len(proofs) THEN [panic |-> "", at |-> 0]
  ELSE IF verify_pair(commitment_root, proofs[k]) # "ok"
    THEN [panic |-> verify_pair(commitment_root, proofs[k]), at |-> k]
  ELSE verify_membership_loop(commitment_root, proofs, k + 1)

\* verify_membership_proof: returns (panic = ""), or panics at pair `at`
verify_membership_proof(app_hash, proofs) == verify_membership_loop(app_hash, proofs, 1)

MembershipInput(app_hash, merkle_proofs) ==
  [app_hash |-> app_hash, merkle_proofs |-> merkle_proofs]

MembershipOutput(app_hash, kv_pairs) == [app_hash |-> app_hash, kv_pairs |-> kv_pairs]

\* mutant: the records are collected in reverse
collect_kv_pairs_reversed(merkle_proofs) ==
  [k \in 1..Len(merkle_proofs) |-> merkle_proofs[Len(merkle_proofs) + 1 - k][1]]

\* merkle_proofs.into_iter().map(|(kv_pair, _raw_proof)| kv_pair).collect()
collect_kv_pairs(merkle_proofs) == [k \in 1..Len(merkle_proofs) |-> merkle_proofs[k][1]]

\* one run of the membership program: the outcome and what was committed
MembershipMain(input) ==
  IF verify_membership_proof(input.app_hash, input.merkle_proofs).panic # ""
    THEN [outcome |-> "panicked",
          panic |-> verify_membership_proof(input.app_hash, input.merkle_proofs),
          output |-> <<>>]
  ELSE [outcome |-> "committed", panic |-> [panic |-> "", at |-> 0],
        output |-> << MembershipOutput(input.app_hash,
                                       collect_kv_pairs(input.merkle_proofs)) >>]

\* ---------------------------------------------------------------------
\* The membership program on sample batches
\* ---------------------------------------------------------------------
\* the largest number of pairs of a sample batch
MaxBatch == 3

\* the state root of the samples, and another root
AppHash == Digest(7)

OtherAppHash == Digest(8)

KVSamples ==
  { KVPair(<<<<105, 98, 99>>, <<1, 2>>>>, <<10, 11>>),
    KVPair(<<<<98, 97, 110, 107>>>>, <<>>) }

\* the ways a proof can be wrong
ProofKinds == { "valid", "undecodable", "other_root", "other_value", "other_path" }

SampleProof(kv, kind) ==
  RawMerkleProof(kind # "undecodable",
                 IF kind = "other_root" THEN OtherAppHash ELSE AppHash,
                 IF kind = "other_path" THEN Append(kv.keys, <<0>>) ELSE kv.keys,
                 IF kind = "other_value" THEN Append(kv.value, 0) ELSE kv.value)

PairSamples == { <<kv, SampleProof(kv, kind)>> : kv \in KVSamples, kind \in ProofKinds }

BatchSamples == UNION { [1..n -> PairSamples] : n \in 0..MaxBatch }

MembershipInit ==
  /\ CoreIdle
  /\ HostIdle
  /\ MerkleIdle
  /\ AggregationIdle
  /\ ProverIdle
  /\ mb_in \in { MembershipInput(AppHash, b) : b \in BatchSamples }
  /\ mb_out = NoMembershipOut

\* the program runs on the input
RunMembership ==
  /\ ~mb_out.done
  /\ mb_out' = [done |-> TRUE, result |-> MembershipMain(mb_in)]
  /\ UNCHANGED <<mb_in, CoreVars, HostVars, MerkleVars, AggregationVars, ProverVars>>

MembershipNext == RunMembership

SpecMembership == MembershipInit /\ [][MembershipNext]_vars

\* a pair whose proof decodes and links its record to the root
PairHolds(app_hash, pair) ==
  /\ pair[2].decodes
  /\ pair[2].root = app_hash
  /\ pair[2].keys = pair[1].keys
  /\ pair[2].value = pair[1].value

AllPairsHold ==
  \A k \in 1..Len(mb_in.merkle_proofs) : PairHolds(mb_in.app_hash, mb_in.merkle_proofs[k])

\* C13: the membership program commits exactly when every pair of the batch
\* decodes and verifies against the one app_hash; if a single pair fails the
\* run panics and nothing is committed, whatever the other pairs are
C13_AllOrNothing ==
  mb_out.done =>
    /\ mb_out.result.outcome = "committed" <=> AllPairsHold
    /\ ~AllPairsHold =>
         /\ mb_out.result.outcome = "panicked"
         /\ mb_out.result.output = <<>>
         /\ ~PairHolds(mb_in.app_hash, mb_in.merkle_proofs[mb_out.result.panic.at])

\* a batch of two valid pairs and a third proved against another root ran
C13_Witness ==
  /\ mb_out.done
  /\ Len(mb_in.merkle_proofs) = 3
  /\ PairHolds(mb_in.app_hash, mb_in.merkle_proofs[1])
  /\ PairHolds(mb_in.app_hash, mb_in.merkle_proofs[2])
  /\ mb_in.merkle_proofs[3][2].decodes
  /\ mb_in.merkle_proofs[3][2].root = OtherAppHash
  /\ mb_out.result.outcome = "panicked"
  /\ mb_out.result.output = <<>>

\* C14: a committed output holds the input app_hash and the input records
\* in the order and number of the input pairs, without the proofs
C14_OutputIsInputRecords ==
  (mb_out.done /\ mb_out.result.outcome = "committed") =>
    /\ Len(mb_out.result.output) = 1
    /\ mb_out.result.output[1].app_hash = mb_in.app_hash
    /\ Len(mb_out.result.output[1].kv_pairs) = Len(mb_in.merkle_proofs)
    /\ \A k \in 1..Len(mb_in.merkle_proofs) :
         mb_out.result.output[1].kv_pairs[k] = mb_in.merkle_proofs[k][1]
    /\ DOMAIN mb_out.result.output[1] = { "app_hash", "kv_pairs" }

\* a batch of three valid pairs with two different records was committed
C14_Witness ==
  /\ mb_out.done
  /\ mb_out.result.outcome = "committed"
  /\ Len(mb_in.merkle_proofs) = 3
  /\ mb_in.merkle_proofs[1][1] # mb_in.merkle_proofs[2][1]
  /\ mb_out.result.output[1].kv_pairs[1] = mb_in.merkle_proofs[1][1]

\* ---------------------------------------------------------------------
\* Public values as bytes: what io::commit writes for an output (fixed-width
\* little-endian integers, u64 length before every Vec, arrays bare) and
\* what bincode::decode_from_slice with config::legacy() reads back
\* ---------------------------------------------------------------------
\* a length as u64, little endian
bincode_len(n) == to_le_bytes(Num(n, 8))

\* Vec<u8>
bincode_bytes(v) == bincode_len(Len(v)) \o v

RECURSIVE bincode_each_bytes(_, _)
\* the items k.. of a Vec<Vec<u8>>
bincode_each_bytes(vs, k) ==
  IF k > Len(vs) THEN <<>> ELSE bincode_bytes(vs[k]) \o bincode_each_bytes(vs, k + 1)

\* KVPair: keys, then value
bincode_kv_pair(kv) ==
  bincode_len(Len(kv.keys)) \o bincode_each_bytes(kv.keys, 1) \o bincode_bytes(kv.value)

RECURSIVE bincode_each_kv_pair(_, _)
bincode_each_kv_pair(kvs, k) ==
  IF k > Len(kvs) THEN <<>> ELSE bincode_kv_pair(kvs[k]) \o bincode_each_kv_pair(kvs, k + 1)

\* the public values of a membership proof
commit_MembershipOutput(output) ==
  output.app_hash \o bincode_len(Len(output.kv_pairs))
    \o bincode_each_kv_pair(output.kv_pairs, 1)

\* the public values of a consensus proof
commit_TendermintOutput(output) ==
  to_le_bytes(output.trusted_height) \o to_le_bytes(output.target_height)
    \o output.trusted_header_hash \o output.target_header_hash
    \o output.compressed_block_public_input \o output.app_hash

\* a reader is [ok, pos, value]: pos the bytes consumed so far
ReadFail == [ok |-> FALSE, pos |-> 0, value |-> <<>>]

\* a u64 length at pos; one that exceeds the bytes left cannot be satisfied
read_len(data, pos) ==
  IF pos + 8 > Len(data) THEN ReadFail
  ELSE IF \E j \in 3..8 : data[pos + j] # 0 THEN ReadFail
  ELSE IF data[pos + 1] + 256 * data[pos + 2] > Len(data) - (pos + 8) THEN ReadFail
  ELSE [ok |-> TRUE, pos |-> pos + 8, value |-> data[pos + 1] + 256 * data[pos + 2]]

\* n bytes at pos
read_exact(data, pos, n) ==
  IF pos + n > Len(data) THEN ReadFail
  ELSE [ok |-> TRUE, pos |-> pos + n, value |-> SubSeq(data, pos + 1, pos + n)]

\* Vec<u8> at pos
read_bytes(data, pos) ==
  LET r == read_len(data, pos)
  IN  IF ~r.ok THEN ReadFail ELSE read_exact(data, r.pos, r.value)

\* the item read as item appended to the list read so far as r
read_append(r, item) ==
  IF ~item.ok THEN ReadFail
  ELSE [ok |-> TRUE, pos |-> item.pos, value |-> Append(r.value, item.value)]

RECURSIVE read_each_bytes(_, _, _)
\* n more Vec<u8> after the reader r, appended to r.value
read_each_bytes(data, r, n) ==
  IF ~r.ok THEN ReadFail
  ELSE IF n = 0 THEN r
  ELSE read_each_bytes(data, read_append(r, read_bytes(data, r.pos)), n - 1)

\* KVPair at pos: keys, then value
read_kv_pair(data, pos) ==
  LET n    == read_len(data, pos)
      keys == IF ~n.ok THEN ReadFail
              ELSE read_each_bytes(data, [ok |-> TRUE, pos |-> n.pos, value |-> <<>>],
                                   n.value)
      val  == IF ~keys.ok THEN ReadFail ELSE read_bytes(data, keys.pos)
  IN  IF ~val.ok THEN ReadFail
      ELSE [ok |-> TRUE, pos |-> val.pos, value |-> KVPair(keys.value, val.value)]

RECURSIVE read_each_kv_pair(_, _, _)
read_each_kv_pair(data, r, n) ==
  IF ~r.ok THEN ReadFail
  ELSE IF n = 0 THEN r
  ELSE read_each_kv_pair(data, read_append(r, read_kv_pair(data, r.pos)), n - 1)

\* decode_from_slice::<MembershipOutput>: <<output>>, or <<>> for Err;
\* bytes after the record are left unread
decode_MembershipOutput(data) ==
  LET n   == IF Len(data) < 32 THEN ReadFail ELSE read_len(data, 32)
      kvs == IF ~n.ok THEN ReadFail
             ELSE read_each_kv_pair(data, [ok |-> TRUE, pos |-> n.pos, value |-> <<>>],
                                    n.value)
  IN  IF ~kvs.ok THEN <<>> ELSE << MembershipOutput(SubSeq(data, 1, 32), kvs.value) >>

\* decode_from_slice::<TendermintOutput>: <<output>>, or <<>> for Err;
\* bytes after the record are left unread
decode_TendermintOutput(data) ==
  IF Len(data) < 144 THEN <<>>
  ELSE << TendermintOutput(from_le_bytes(Slice(data, 0, 8)),
                           from_le_bytes(Slice(data, 8, 16)),
                           Slice(data, 16, 48), Slice(data, 48, 80),
                           Slice(data, 80, 112), Slice(data, 112, 144)) >>

\* ---------------------------------------------------------------------
\* programs/baby_aggregation_program/src/main.rs
\* ---------------------------------------------------------------------
AggregationInput(cvk, cpi, mvk, mpi) ==
  [consensus_vkey_u32_hash |-> cvk, consensus_public_input |-> cpi,
   membership_vkey_u32_hash |-> mvk, membership_public_input |-> mpi]

\* mutant: the two state roots are not compared
app_hash_matches_any(consensus_public_input, membership_public_input) == TRUE

\* the assert_eq! of the two app_hash fields
app_hash_matches(consensus_public_input, membership_public_input) ==
  consensus_public_input.app_hash = membership_public_input.app_hash

\* main once the digests, the two verifications and the two decodings are
\* known: the calls made in order and the outcome; nothing is committed
AggregationMain_outcome(input, cdigest, mdigest, cheld, mheld, cdec, mdec) ==
  LET blank == [input |-> input, events |-> <<>>, outcome |-> "panicked", panic_at |-> "",
                verify_args |-> <<>>, decoded |-> <<>>, public_values |-> <<>>]
      ev1   == <<"read_input", "verify_consensus_proof">>
      ev2   == Append(ev1, "verify_membership_proof")
      ev3   == Append(ev2, "decode_consensus")
      ev4   == Append(ev3, "decode_membership")
      ev5   == Append(ev4, "assert_app_hash")
      arg1  == << <<input.consensus_vkey_u32_hash, cdigest>> >>
      arg2  == Append(arg1, <<input.membership_vkey_u32_hash, mdigest>>)
  IN  IF ~cheld
        THEN [blank EXCEPT !.events = ev1, !.panic_at = "verify_consensus_proof",
                           !.verify_args = arg1]
      ELSE IF ~mheld
        THEN [blank EXCEPT !.events = ev2, !.panic_at = "verify_membership_proof",
                           !.verify_args = arg2]
      ELSE IF cdec = <<>>
        THEN [blank EXCEPT !.events = ev3, !.panic_at = "decode_consensus",
                           !.verify_args = arg2]
      ELSE IF mdec = <<>>
        THEN [blank EXCEPT !.events = ev4, !.panic_at = "decode_membership",
                           !.verify_args = arg2, !.decoded = cdec]
      ELSE IF ~app_hash_matches(cdec[1], mdec[1])
        THEN [blank EXCEPT !.events = ev5, !.panic_at = "assert_app_hash",
                           !.verify_args = arg2, !.decoded = cdec \o mdec]
      ELSE [blank EXCEPT !.events = ev5, !.outcome = "completed",
                         !.verify_args = arg2, !.decoded = cdec \o mdec]

\* main from the first verify_sp1_proof on, the digests of the two blobs known
AggregationMain_verify(input, proofs, cdigest, mdigest) ==
  AggregationMain_outcome(
    input, cdigest, mdigest,
    verify_sp1_proof(proofs, input.consensus_vkey_u32_hash, cdigest),
    verify_sp1_proof(proofs, input.membership_vkey_u32_hash, mdigest),
    decode_TendermintOutput(input.consensus_public_input),
    decode_MembershipOutput(input.membership_public_input))

\* one run of the aggregation program on `input`, the backend holding `proofs`
AggregationMain(input, proofs) ==
  AggregationMain_verify(input, proofs,
                         sha256_hash(input.consensus_public_input),
                         sha256_hash(input.membership_public_input))

\* ---------------------------------------------------------------------
\* service/src/provers.rs: persisted proofs
\* ---------------------------------------------------------------------
\* what a proof file holds: whether SP1ProofWithPublicValues::load reads it,
\* the proof mode, the vk digest inside the proof, the public value bytes
ProofFile(loads, kind, sp1_vk_digest, public_values) ==
  [loads |-> loads, kind |-> kind, sp1_vk_digest |-> sp1_vk_digest,
   public_values |-> public_values]

\* the file at a path: <<>> when there is none, else <<content>>;
\* err is the ProverError variant returned, "" on Ok
load_sp1_proof_and_public_values(file) ==
  IF file = <<>>
    THEN [err |-> "IO", steps |-> <<"exists">>, value |-> <<>>]
  ELSE IF ~file[1].loads
    THEN [err |-> "LoadProof", steps |-> <<"exists", "load">>, value |-> <<>>]
  ELSE [err |-> "", steps |-> <<"exists", "load">>, value |-> file]

\* mutant: a proof of any mode is accepted
load_compressed_proof_any_kind(file) == load_sp1_proof_and_public_values(file)

load_compressed_proof(file) ==
  LET loaded == load_sp1_proof_and_public_values(file)
  IN  IF loaded.err # "" THEN loaded
      ELSE IF loaded.value[1].kind # "compressed"
        THEN [err |-> "BadProofType", steps |-> loaded.steps, value |-> <<>>]
      ELSE loaded

\* ---------------------------------------------------------------------
\* service/src/provers.rs: Groth16Proof and the digest string of its vkey
\* ---------------------------------------------------------------------
HexDigits ==
  <<"0", "1", "2", "3", "4", "5", "6", "7", "8", "9", "a", "b", "c", "d", "e", "f">>

UpperHexDigits == <<"A", "B", "C", "D", "E", "F">>

\* value of a hexadecimal digit of either case, -1 for any other character
hex_value(ch) ==
  IF \E k \in 1..16 : HexDigits[k] = ch
    THEN (CHOOSE k \in 1..16 : HexDigits[k] = ch) - 1
  ELSE IF \E k \in 1..6 : UpperHexDigits[k] = ch
    THEN (CHOOSE k \in 1..6 : UpperHexDigits[k] = ch) + 9
  ELSE -1

\* SP1VerifyingKey::bytes32: "0x" and the 64 lower-case digits of the digest
bytes32(digest) ==
  <<"0", "x">> \o
  [k \in 1..(2 * Len(digest)) |->
     IF k % 2 = 1 THEN HexDigits[(digest[(k + 1) \div 2] \div 16) + 1]
     ELSE HexDigits[(digest[k \div 2] % 16) + 1]]

\* decode_sp1_vkey_hash: the text after its first two characters is decoded
\* as hexadecimal and must give 32 bytes
decode_sp1_vkey_hash(text) ==
  LET digits == SubSeq(text, 3, Len(text))
  IN  IF Len(digits) % 2 # 0 \/ \E k \in 1..Len(digits) : hex_value(digits[k]) = -1
        THEN [ok |-> FALSE, bytes |-> <<>>]
      ELSE IF Len(digits) # 64
        THEN [ok |-> FALSE, bytes |-> <<>>]
      ELSE [ok |-> TRUE,
            bytes |-> [k \in 1..32 |->
                         16 * hex_value(digits[2 * k - 1]) + hex_value(digits[2 * k])]]

Groth16Proof(proof, public_values, vkey) ==
  [proof |-> proof, public_values |-> public_values, vkey |-> vkey]

\* =====================================================================
\* service/src/provers/babylon.rs: prepare_membership_input and
\* prove_storage_key_existence
\* =====================================================================
RECURSIVE utf8_valid_from(_, _)
\* std::str::from_utf8 from byte k on: TRUE when the bytes are well formed
utf8_valid_from(bytes, k) ==
  IF k > Len(bytes) THEN TRUE
  ELSE
    LET b == bytes[k]
        cont(j, lo, hi) ==
          /\ k + j <= Len(bytes)
          /\ bytes[k + j] >= lo
          /\ bytes[k + j] <= hi
    IN  IF b < 128 THEN utf8_valid_from(bytes, k + 1)
        ELSE IF b >= 194 /\ b <= 223
          THEN cont(1, 128, 191) /\ utf8_valid_from(bytes, k + 2)
        ELSE IF b = 224
          THEN cont(1, 160, 191) /\ cont(2, 128, 191) /\ utf8_valid_from(bytes, k + 3)
        ELSE IF (b >= 225 /\ b <= 236) \/ b = 238 \/ b = 239
          THEN cont(1, 128, 191) /\ cont(2, 128, 191) /\ utf8_valid_from(bytes, k + 3)
        ELSE IF b = 237
          THEN cont(1, 128, 159) /\ cont(2, 128, 191) /\ utf8_valid_from(bytes, k + 3)
        ELSE IF b = 240
          THEN /\ cont(1, 144, 191) /\ cont(2, 128, 191) /\ cont(3, 128, 191)
               /\ utf8_valid_from(bytes, k + 4)
        ELSE IF b >= 241 /\ b <= 243
          THEN /\ cont(1, 128, 191) /\ cont(2, 128, 191) /\ cont(3, 128, 191)
               /\ utf8_valid_from(bytes, k + 4)
        ELSE IF b = 244
          THEN /\ cont(1, 128, 143) /\ cont(2, 128, 191) /\ cont(3, 128, 191)
               /\ utf8_valid_from(bytes, k + 4)
        ELSE FALSE

RECURSIVE concat_from(_, _)
\* key_path[k..].concat()
concat_from(key_path, k) ==
  IF k > Len(key_path) THEN <<>> ELSE key_path[k] \o concat_from(key_path, k + 1)

\* height as u32 - 1, for heights from 1 to the sample heights
query_height(height) == height - 1

\* the part of prove_storage_key_existence before the query is awaited:
\* "query", or the end it comes to without a query
storage_key_request(key_path) ==
  IF Len(key_path) = 0 THEN [kind |-> "Panic", error |-> "index out of bounds"]
  ELSE IF ~utf8_valid_from(key_path[1], 1)
    THEN [kind |-> "Err", error |-> "Invalid UTF-8 in store name"]
  ELSE [kind |-> "query", error |-> ""]

\* what the node answers an abci_query: an error of the transport, or the
\* height, key, value and proof of the response; proof is <<>> for None,
\* else the ops (all decode or not) and what they link
AbciResponse(error, height, key, value, proof) ==
  [error |-> error, height |-> height, key |-> key, value |-> value, proof |-> proof]

\* the part of prove_storage_key_existence after the response came: the
\* error, or the value and the converted proof
prove_storage_key_existence(key_path, height, res) ==
  IF res.error
    THEN [err |-> "Rpc", value |-> <<>>, proof |-> <<>>]
  ELSE IF res.height # query_height(height)
    THEN [err |-> "TendermintProofHeightMismatch", value |-> <<>>, proof |-> <<>>]
  ELSE IF res.key # concat_from(key_path, 2)
    THEN [err |-> "TendermintProofKeyMismatch", value |-> <<>>, proof |-> <<>>]
  ELSE IF res.value = <<>>
    THEN [err |-> "Queried key returned empty value", value |-> <<>>, proof |-> <<>>]
  ELSE IF res.proof = <<>>
    THEN [err |-> "Missing proof in ABCI response", value |-> <<>>, proof |-> <<>>]
  ELSE IF ~res.proof[1].ops_decode
    THEN [err |-> "Decode", value |-> <<>>, proof |-> <<>>]
  ELSE [err |-> "", value |-> res.value,
        proof |-> << RawMerkleProof(TRUE, res.proof[1].root, res.proof[1].keys,
                                    res.proof[1].value) >>]

\* mutant: the results are collected in the order the responses came
joined_position_by_completion(i, order) == Pos(order, i)

\* try_join_all: the result of the future at position i of the iterator is
\* element i of the joined vector, whatever completed before it
joined_position(i, order) == i

\* the future of one key: the pair and the encoded proof, or the error
fetch_entry(key_path, fetched) ==
  IF fetched.err # "" THEN <<>>
  ELSE << <<KVPair(key_path, fetched.value), fetched.proof[1]>> >>

FetchEnd(kind, error, input) == [kind |-> kind, error |-> error, input |-> input]

FetchEvent(ev, at) == [ev |-> ev, at |-> at]

\* try_join_all keeps up to SMALL futures in a slice it polls in order of
\* position, and more in a FuturesOrdered
SMALL == 30

\* the call of prepare_membership_input over n key paths before its first
\* poll: its phase, the positions whose query was sent, the positions in the
\* order their responses came, the kind of each response and the response,
\* the positions whose response came since the last poll, the positions
\* whose future ran to its end, the error of each, the joined slots, what
\* happened so far, and the end of the call
FetchRun(n) ==
  [phase |-> "ready", issued |-> {}, order |-> <<>>,
   answers |-> [k \in 1..n |-> "none"], responses |-> [k \in 1..n |-> <<>>],
   arrived |-> {}, polled |-> {}, failed |-> [k \in 1..n |-> ""],
   slots |-> [k \in 1..n |-> <<>>], events |-> <<>>,
   result |-> FetchEnd("none", "", <<>>)]

RECURSIVE first_poll(_, _, _)
\* the first poll of try_join_all from position k on: every future runs up
\* to its query. A future that panics ends the call. One that returns an
\* error ends the call when the futures are polled as a slice, where the
\* futures behind it are never polled, and when it is the first of a
\* FuturesOrdered; behind the first position a FuturesOrdered keeps the error
\* until the positions before it are done, and polls the others
first_poll(key_paths, k, join) ==
  IF k > Len(key_paths) THEN join
  ELSE IF storage_key_request(key_paths[k]).kind = "query"
    THEN first_poll(key_paths, k + 1,
                    [join EXCEPT !.issued = @ \cup {k},
                                !.events = Append(@, FetchEvent("query", k))])
  ELSE IF \/ storage_key_request(key_paths[k]).kind = "Panic"
          \/ Len(key_paths) <= SMALL
          \/ k = 1
    THEN [join EXCEPT !.phase = "done",
                     !.result = FetchEnd(storage_key_request(key_paths[k]).kind,
                                         storage_key_request(key_paths[k]).error, <<>>)]
  ELSE first_poll(key_paths, k + 1,
                  [join EXCEPT !.polled = @ \cup {k},
                              !.failed[k] = storage_key_request(key_paths[k]).error])

RECURSIVE poll_futures(_, _, _, _)
\* one poll of the join from position k on: each future whose response came
\* runs to its end; polled as a slice, the first error in the order of the
\* positions ends the call
poll_futures(key_paths, height, join, k) ==
  IF k > Len(key_paths) THEN join
  ELSE IF k \notin join.arrived THEN poll_futures(key_paths, height, join, k + 1)
  ELSE IF prove_storage_key_existence(key_paths[k], height, join.responses[k][1]).err # ""
    THEN IF Len(key_paths) <= SMALL
           THEN [join EXCEPT
                   !.arrived = @ \ {k}, !.polled = @ \cup {k},
                   !.failed[k] = prove_storage_key_existence(
                                   key_paths[k], height, join.responses[k][1]).err,
                   !.phase = "done",
                   !.result = FetchEnd("Err",
                                       prove_storage_key_existence(
                                         key_paths[k], height, join.responses[k][1]).err,
                                       <<>>)]
         ELSE poll_futures(
                key_paths, height,
                [join EXCEPT
                   !.arrived = @ \ {k}, !.polled = @ \cup {k},
                   !.failed[k] = prove_storage_key_existence(
                                   key_paths[k], height, join.responses[k][1]).err],
                k + 1)
  ELSE poll_futures(
         key_paths, height,
         [join EXCEPT
            !.arrived = @ \ {k}, !.polled = @ \cup {k},
            !.slots[joined_position(k, join.order)] =
               fetch_entry(key_paths[k],
                           prove_storage_key_existence(key_paths[k], height,
                                                       join.responses[k][1]))],
         k + 1)

\* the positions whose result the join has not taken over
open_positions(join, n) == { i \in 1..n : i \notin join.polled \/ join.failed[i] # "" }

\* the end of a poll: the results are taken over in the order of the
\* positions; an error is returned once every position before it is done,
\* and with every result in the block is asked for
deliver(join, n) ==
  IF join.phase = "done" THEN join
  ELSE IF open_positions(join, n) = {}
    THEN [join EXCEPT !.phase = "block", !.events = Append(@, FetchEvent("block", 0))]
  ELSE IF join.failed[CHOOSE i \in open_positions(join, n) :
                       \A j \in open_positions(join, n) : i <= j] # ""
    THEN [join EXCEPT
            !.phase = "done",
            !.result = FetchEnd("Err",
                                join.failed[CHOOSE i \in open_positions(join, n) :
                                             \A j \in open_positions(join, n) : i <= j],
                                <<>>)]
  ELSE [join EXCEPT !.phase = "joining"]

\* a poll of the join after responses came
poll_join(key_paths, height, join) ==
  deliver(poll_futures(key_paths, height, join, 1), Len(key_paths))

\* prepare_membership_input after the join: the block's app_hash is turned
\* into 32 bytes, the batch is checked against it, and the input returned
membership_input_end(block, merkle_proofs) ==
  IF block.error THEN FetchEnd("Err", "Rpc", <<>>)
  ELSE IF Len(block.app_hash) # 32 THEN FetchEnd("Err", "Invalid app_hash length", <<>>)
  ELSE IF verify_membership_proof(block.app_hash, merkle_proofs).panic # ""
    THEN FetchEnd("Panic", verify_membership_proof(block.app_hash, merkle_proofs).panic,
                  <<>>)
  ELSE FetchEnd("Ok", "", << MembershipInput(block.app_hash, merkle_proofs) >>)

\* ---------------------------------------------------------------------
\* The node and the calls of prepare_membership_input
\* ---------------------------------------------------------------------
\* the most key paths of a call whose responses come in any order, and the
\* key paths of a call joined by a FuturesOrdered
MaxKeys == 3

BigKeys == 31

\* the state the node holds: three keys in two stores
NodeStore ==
  { KVPair(<<<<105, 98, 99>>, <<1, 2>>>>, <<10, 11>>),
    KVPair(<<<<98, 97, 110, 107>>, <<3>>, <<4>>>>, <<20>>),
    KVPair(<<<<105, 98, 99>>, <<5>>>>, <<30, 31, 32>>) }

NodeValue(key_path) ==
  IF \E kv \in NodeStore : kv.keys = key_path
    THEN (CHOOSE kv \in NodeStore : kv.keys = key_path).value
  ELSE <<>>

KeyPathA == <<<<105, 98, 99>>, <<1, 2>>>>

KeyPathB == <<<<98, 97, 110, 107>>, <<3>>, <<4>>>>

KeyPathC == <<<<105, 98, 99>>, <<5>>>>

\* a key path whose store name is no UTF-8
KeyPathBadStore == <<<<255>>, <<1>>>>

\* the key path lists asked for: none, one, two, three keys, one key twice,
\* a store name that is no UTF-8 and an empty key path behind a sound one
KeyPathLists ==
  { <<>>, <<KeyPathA>>, <<KeyPathA, KeyPathB>>, <<KeyPathA, KeyPathB, KeyPathC>>,
    <<KeyPathB, KeyPathA, KeyPathB>>, <<KeyPathA, KeyPathBadStore, KeyPathB>>,
    <<KeyPathC, <<>>>> }

\* BigKeys key paths over the three keys of the node
BigKeyPaths ==
  [k \in 1..BigKeys |-> IF k % 3 = 1 THEN KeyPathA ELSE IF k % 3 = 2 THEN KeyPathB
                        ELSE KeyPathC]

FetchHeight == 12

\* the responses of the node: sound, a transport error, height 0, another
\* key, an empty value, no proof, an op that does not decode, and a sound
\* response proved against another root
AnswerKinds == {"ok", "rpc", "height", "key", "empty", "no_proof", "bad_op", "other_root"}

FailingAnswers == AnswerKinds \ {"ok", "other_root"}

NodeAnswer(kind, key_path, height) ==
  AbciResponse(
    kind = "rpc",
    IF kind = "height" THEN 0 ELSE query_height(height),
    IF kind = "key" THEN Append(concat_from(key_path, 2), 0) ELSE concat_from(key_path, 2),
    IF kind = "empty" THEN <<>> ELSE NodeValue(key_path),
    IF kind = "no_proof" THEN <<>>
    ELSE << [ops_decode |-> kind # "bad_op",
             root |-> IF kind = "other_root" THEN OtherAppHash ELSE AppHash,
             keys |-> key_path,
             value |-> NodeValue(key_path)] >>)

\* the answers to the block query: the block of the root, of another root,
\* an app_hash of 31 bytes, a transport error
BlockAnswers ==
  { [error |-> FALSE, app_hash |-> AppHash], [error |-> FALSE, app_hash |-> OtherAppHash],
    [error |-> FALSE, app_hash |-> SubSeq(AppHash, 1, 31)],
    [error |-> TRUE, app_hash |-> <<>>] }

Arrival(at, kind) == [at |-> at, kind |-> kind]

\* the order the responses of a call over BigKeys key paths come in: the
\* last position first with another key, then the others; the positions
\* from the first on, all sound; the positions from the last down, all sound
BigPlans ==
  { [k \in 1..BigKeys |-> IF k = 1 THEN Arrival(BigKeys, "key") ELSE Arrival(k - 1, "ok")],
    [k \in 1..BigKeys |-> Arrival(k, "ok")],
    [k \in 1..BigKeys |-> Arrival(BigKeys + 1 - k, "ok")] }

\* the calls: the short lists with responses in any order, and the long
\* ones, one of them with a store name that is no UTF-8 at position 5, with
\* the responses in a planned order
FetchSamples ==
  { [key_paths |-> paths, block_height |-> FetchHeight, plan |-> <<>>] :
      paths \in { p \in KeyPathLists : Len(p) <= MaxKeys } }
    \cup { [key_paths |-> BigKeyPaths, block_height |-> FetchHeight, plan |-> plan] :
             plan \in BigPlans }
    \cup { [key_paths |-> [BigKeyPaths EXCEPT ![5] = KeyPathBadStore],
            block_height |-> FetchHeight,
            plan |-> [k \in 1..BigKeys |-> Arrival(k, "ok")]] }

FetchInit ==
  /\ CoreIdle
  /\ MerkleIdle
  /\ MembershipIdle
  /\ AggregationIdle
  /\ ProverIdle
  /\ VerifyIdle
  /\ f_in \in FetchSamples
  /\ f_run = FetchRun(Len(f_in.key_paths))

\* the call and the first poll of the join: the queries go out in the order
\* of the key paths; with no key path the block query goes out at once
StartFetchStep ==
  /\ f_run.phase = "ready"
  /\ f_run' = deliver(first_poll(f_in.key_paths, 1, f_run), Len(f_in.key_paths))
  /\ UNCHANGED f_in

\* the response to the query of position i comes and wakes the call
RespondStep(i, kind) ==
  /\ f_run.phase = "joining"
  /\ i \in f_run.issued
  /\ f_run.answers[i] = "none"
  /\ \/ f_in.plan = <<>>
     \/ /\ Len(f_run.order) < Len(f_in.plan)
        /\ f_in.plan[Len(f_run.order) + 1] = Arrival(i, kind)
  /\ f_run' = [f_run EXCEPT
                 !.order = Append(@, i), !.answers[i] = kind,
                 !.responses[i] = << NodeAnswer(kind, f_in.key_paths[i], f_in.block_height) >>,
                 !.arrived = @ \cup {i},
                 !.events = Append(@, FetchEvent("response", i))]
  /\ UNCHANGED f_in

\* the call is polled after one or more responses came
PollJoinStep ==
  /\ f_run.phase = "joining"
  /\ f_run.arrived # {}
  /\ f_run' = poll_join(f_in.key_paths, f_in.block_height, f_run)
  /\ UNCHANGED f_in

\* the block comes: the rest of prepare_membership_input
BlockFetchedStep(block) ==
  /\ f_run.phase = "block"
  /\ f_run' = [f_run EXCEPT
                 !.phase = "done",
                 !.events = IF ~block.error /\ Len(block.app_hash) = 32
                              THEN Append(@, FetchEvent("verify", 0)) ELSE @,
                 !.result = membership_input_end(
                              block, [k \in 1..Len(f_run.slots) |-> f_run.slots[k][1]])]
  /\ UNCHANGED f_in

StartFetch ==
  /\ StartFetchStep
  /\ UNCHANGED <<CoreVars, MerkleVars, MembershipVars, AggregationVars, ProverVars,
                 VerifyVars>>

CompleteFetch(i, kind) ==
  /\ RespondStep(i, kind)
  /\ UNCHANGED <<CoreVars, MerkleVars, MembershipVars, AggregationVars, ProverVars,
                 VerifyVars>>

PollJoin ==
  /\ PollJoinStep
  /\ UNCHANGED <<CoreVars, MerkleVars, MembershipVars, AggregationVars, ProverVars,
                 VerifyVars>>

BlockFetched(block) ==
  /\ BlockFetchedStep(block)
  /\ UNCHANGED <<CoreVars, MerkleVars, MembershipVars, AggregationVars, ProverVars,
                 VerifyVars>>

FetchNext ==
  \/ StartFetch
  \/ \E i \in 1..BigKeys, kind \in AnswerKinds : CompleteFetch(i, kind)
  \/ PollJoin
  \/ \E block \in BlockAnswers : BlockFetched(block)

SpecFetch == FetchInit /\ [][FetchNext]_vars

\* ---------------------------------------------------------------------
\* service/src/provers/babylon.rs: MembershipProver
\* ---------------------------------------------------------------------
\* vkey digest of the membership program
MembershipVKey == <<31, 32, 33, 34, 35, 36, 37, 38>>

\* the 32 bytes of the aggregation vkey that SP1VerifyingKey::bytes32 writes
AggregationVKeyDigest == Digest(41)

ProveResult(events, result, error, guest, groth16) ==
  [events |-> events, result |-> result, error |-> error, guest |-> guest,
   groth16 |-> groth16]

\* the Groth16 proof of the backend: the bytes SP1ProofWithPublicValues::bytes
\* gives, and what load_ark_proof_from_bytes makes of them from the fifth
\* on: whether they load, and the points A, B and C, each held as its
\* uncompressed serialization
GnarkProof(bytes, loads, a, b, c) ==
  [bytes |-> bytes, loads |-> loads, a |-> a, b |-> b, c |-> c]

\* point.serialize_with_mode(&mut proof[range], Compress::No) on a range of
\* `room` zero bytes: the write into the slice fails when the serialization
\* is longer than the slice, else it fills the slice from its start
serialize_with_mode(point, room) ==
  IF Len(point) > room THEN [err |-> "ArkSerialize", written |-> <<>>]
  ELSE [err |-> "", written |-> point \o Zeros(room - Len(point))]

\* to_arkworks_groth16_proof_bytes: bytes()[4..] panics on fewer than 4
\* bytes; `?` returns the error of a proof that does not load and of a
\* point that does not serialize; else 256 bytes: A in the first 64, B in
\* the next 128, C in the last 64
to_arkworks_groth16_proof_bytes(gnark_groth16) ==
  IF Len(gnark_groth16.bytes) < 4
    THEN [panic |-> TRUE, err |-> "range start index 4 out of range", proof |-> <<>>]
  ELSE IF ~gnark_groth16.loads
    THEN [panic |-> FALSE, err |-> "ArkGroth16", proof |-> <<>>]
  ELSE IF \/ serialize_with_mode(gnark_groth16.a, 64).err # ""
          \/ serialize_with_mode(gnark_groth16.b, 128).err # ""
          \/ serialize_with_mode(gnark_groth16.c, 64).err # ""
    THEN [panic |-> FALSE, err |-> "ArkSerialize", proof |-> <<>>]
  ELSE [panic |-> FALSE, err |-> "",
        proof |-> serialize_with_mode(gnark_groth16.a, 64).written
                    \o serialize_with_mode(gnark_groth16.b, 128).written
                    \o serialize_with_mode(gnark_groth16.c, 64).written]

\* aggregate_stark_proofs_to_groth16 once the program has run inside the
\* backend: a panic of the program is the GenerateProof error; the proof
\* generated is converted, a conversion that panics ends the call, and a
\* proof that does not convert is an error
aggregate_result(events, guest, gnark_groth16) ==
  IF guest.outcome # "completed"
    THEN ProveResult(events, "Err", "GenerateProof", <<guest>>, <<>>)
  ELSE IF to_arkworks_groth16_proof_bytes(gnark_groth16).panic
    THEN ProveResult(Append(events, "to_arkworks"), "Panic",
                     to_arkworks_groth16_proof_bytes(gnark_groth16).err, <<guest>>, <<>>)
  ELSE IF to_arkworks_groth16_proof_bytes(gnark_groth16).err # ""
    THEN ProveResult(Append(events, "to_arkworks"), "Err",
                     to_arkworks_groth16_proof_bytes(gnark_groth16).err, <<guest>>, <<>>)
  ELSE ProveResult(Append(events, "to_arkworks"), "Ok", "", <<guest>>,
                   << Groth16Proof(to_arkworks_groth16_proof_bytes(gnark_groth16).proof,
                                   guest.public_values,
                                   bytes32(AggregationVKeyDigest)) >>)

\* stdin of the aggregation run: the input, then each proof with the vkey
\* the host set up for it; the backend holds a proof for a vkey when the
\* proof was made under it
aggregate_stark_proofs_to_groth16(events, consensus_proof, membership_proof, gnark_groth16) ==
  aggregate_result(
    Append(events, "prove_groth16"),
    AggregationMain(
      AggregationInput(ConsensusVKey, consensus_proof.public_values,
                       MembershipVKey, membership_proof.public_values),
      { [vkey |-> q.sp1_vk_digest, digest |-> sha256_hash(q.public_values)] :
          q \in {consensus_proof, membership_proof} }),
    gnark_groth16)

\* prove from the bare membership proof on
MembershipProver_aggregate(events, consensus_proof, membership_proof, gnark_groth16) ==
  IF membership_proof.kind # "compressed" \/ consensus_proof.kind # "compressed"
    THEN ProveResult(Append(events, "proof_type"), "Err", "BadProofType", <<>>, <<>>)
  ELSE IF consensus_proof.sp1_vk_digest # ConsensusVKey
    THEN ProveResult(events \o <<"proof_type", "vk_digest">>, "Err",
                     "Sp1VkeyHashMismatch", <<>>, <<>>)
  ELSE aggregate_stark_proofs_to_groth16(events \o <<"proof_type", "vk_digest">>,
                                         consensus_proof, membership_proof, gnark_groth16)

\* BareMembershipProver::prove after prepare_membership_input: the program
\* runs in the backend on the input, a run that panics is the GenerateProof
\* error, and the proof commits the program's output
BareMembershipProver_prove(events, consensus_proof, run_result, gnark_groth16) ==
  IF run_result.outcome # "committed"
    THEN ProveResult(events \o <<"prepare_membership_input", "prove_compressed">>, "Err",
                     "GenerateProof", <<>>, <<>>)
  ELSE MembershipProver_aggregate(
         events \o <<"prepare_membership_input", "prove_compressed">>,
         consensus_proof,
         ProofFile(TRUE, "compressed", MembershipVKey,
                   commit_MembershipOutput(run_result.output[1])),
         gnark_groth16)

\* MembershipProver::prove from the end of prepare_membership_input on,
\* with the consensus proof it loaded before
MembershipProver_finish(consensus_proof, end, gnark_groth16) ==
  IF end.kind # "Ok"
    THEN ProveResult(<<"load_consensus_proof", "prepare_membership_input">>, end.kind,
                     end.error, <<>>, <<>>)
  ELSE BareMembershipProver_prove(<<"load_consensus_proof">>, consensus_proof,
                                  MembershipMain(end.input[1]), gnark_groth16)

\* MembershipProver::prove after a step of prepare_membership_input: it
\* waits on while the fetch is not over
MembershipProver_prove(consensus_proof, join, gnark_groth16) ==
  IF join.phase # "done" THEN [done |-> FALSE, consensus_proof |-> consensus_proof]
  ELSE [done |-> TRUE, consensus_proof |-> consensus_proof,
        result |-> MembershipProver_finish(consensus_proof[1], join.result, gnark_groth16)]

\* ---------------------------------------------------------------------
\* The aggregation program and MembershipProver::prove on samples
\* ---------------------------------------------------------------------
SampleConsensusOutput(app_hash) ==
  TendermintOutput(Num(InitialHeight, 8), Num(InitialHeight + 1, 8), Digest(41),
                   Digest(42), Digest(43), app_hash)

SampleKV == KVPair(<<<<105, 98, 99>>, <<1, 2>>>>, <<10, 11>>)

\* committed consensus outputs, one cut short, one with a trailing byte
ConsensusBlobs ==
  { commit_TendermintOutput(SampleConsensusOutput(AppHash)),
    commit_TendermintOutput(SampleConsensusOutput(OtherAppHash)),
    SubSeq(commit_TendermintOutput(SampleConsensusOutput(AppHash)), 1, 143),
    Append(commit_TendermintOutput(SampleConsensusOutput(AppHash)), 0) }

\* committed membership outputs, one cut short
MembershipBlobs ==
  { commit_MembershipOutput(MembershipOutput(AppHash, <<SampleKV>>)),
    commit_MembershipOutput(MembershipOutput(AppHash, <<>>)),
    commit_MembershipOutput(MembershipOutput(OtherAppHash, <<SampleKV>>)),
    SubSeq(commit_MembershipOutput(MembershipOutput(AppHash, <<SampleKV>>)), 1, 40) }

\* what can be wrong with the proofs the backend holds
HeldFaults ==
  { "none", "no_consensus_proof", "no_membership_proof", "consensus_vkey",
    "membership_vkey" }

HeldProofs(fault, cdigest, mdigest) ==
  (IF fault = "no_consensus_proof" THEN {}
   ELSE { [vkey |-> ConsensusVKey, digest |-> cdigest] })
  \cup
  (IF fault = "no_membership_proof" THEN {}
   ELSE { [vkey |-> MembershipVKey, digest |-> mdigest] })

ProgramSample(cblob, mblob, fault) ==
  [kind |-> "program",
   input |-> AggregationInput(
               IF fault = "consensus_vkey" THEN OtherVKey ELSE ConsensusVKey, cblob,
               IF fault = "membership_vkey" THEN OtherVKey ELSE MembershipVKey, mblob),
   proofs |-> HeldProofs(fault, sha256_hash(cblob), sha256_hash(mblob))]

\* the consensus proof for the other root
OtherRootFile ==
  << ProofFile(TRUE, "compressed", ConsensusVKey,
               commit_TendermintOutput(SampleConsensusOutput(OtherAppHash))) >>

\* the file at the height's path: none, unreadable, of another mode, made
\* under another vkey, or a consensus proof for one of the two roots
FileSamples ==
  { <<>>,
    << ProofFile(FALSE, "compressed", ConsensusVKey, <<>>) >>,
    << ProofFile(TRUE, "core", ConsensusVKey,
                 commit_TendermintOutput(SampleConsensusOutput(AppHash))) >>,
    << ProofFile(TRUE, "compressed", OtherVKey,
                 commit_TendermintOutput(SampleConsensusOutput(AppHash))) >>,
    << ProofFile(TRUE, "compressed", ConsensusVKey,
                 commit_TendermintOutput(SampleConsensusOutput(AppHash))) >>,
    OtherRootFile }

\* the bytes of a Groth16 proof of a proving backend: four bytes of the
\* hash of the verifier's key, then the encoded proof
GnarkBytes == <<9, 8, 7, 6>> \o [k \in 1..256 |-> k % 256]

\* the Groth16 proofs of the backend: the proof of the mock backend, which
\* has no bytes, one that does not load, one that loads, and one with a
\* point B whose serialization is a byte longer than its range
GnarkProofs ==
  { GnarkProof(<<>>, FALSE, <<>>, <<>>, <<>>),
    GnarkProof(GnarkBytes, FALSE, <<>>, <<>>, <<>>),
    GnarkProof(GnarkBytes, TRUE, [k \in 1..64 |-> k], [k \in 1..128 |-> 64 + k],
               [k \in 1..64 |-> 192 + k]),
    GnarkProof(GnarkBytes, TRUE, [k \in 1..64 |-> k], [k \in 1..129 |-> 64 + k],
               [k \in 1..64 |-> 192 + k]) }

\* the key paths and the responses of the node in a call of the service
MembershipKeyPaths == { <<KeyPathA>>, <<KeyPathA, KeyPathB>> }

MembershipAnswers == { "ok", "other_root", "rpc" }

AggregationInit ==
  /\ CoreIdle
  /\ VerifyIdle
  /\ MerkleIdle
  /\ MembershipIdle
  /\ ProverIdle
  /\ \/ /\ ag_in \in { ProgramSample(c, m, f) :
                         c \in ConsensusBlobs, m \in MembershipBlobs, f \in HeldFaults }
        /\ FetchIdle
     \/ /\ ag_in \in { [kind |-> "prover", file |-> f] : f \in FileSamples }
        /\ f_in \in { [key_paths |-> paths, block_height |-> FetchHeight, plan |-> <<>>] :
                        paths \in MembershipKeyPaths }
        /\ f_run = FetchRun(Len(f_in.key_paths))
  /\ ag_out = NoAggregationOut

\* the aggregation program runs on an input, the backend holding proofs
RunAggregation ==
  /\ ~ag_out.done
  /\ ag_in.kind = "program"
  /\ ag_out' = [done |-> TRUE, result |-> AggregationMain(ag_in.input, ag_in.proofs)]
  /\ UNCHANGED <<ag_in, CoreVars, HostVars, MerkleVars, MembershipVars, ProverVars>>

\* MembershipProver::prove up to its first await: the consensus proof is
\* loaded from the file at the height's path, and the join of the fetches is
\* polled for the first time
StartProveMembership ==
  /\ ~ag_out.done
  /\ ag_in.kind = "prover"
  /\ f_run.phase = "ready"
  /\ IF load_sp1_proof_and_public_values(ag_in.file).err # ""
       THEN /\ ag_out' = [done |-> TRUE, consensus_proof |-> <<>>,
                          result |-> ProveResult(
                                       <<"load_consensus_proof">>, "Err",
                                       load_sp1_proof_and_public_values(ag_in.file).err,
                                       <<>>, <<>>)]
            /\ UNCHANGED <<f_in, f_run>>
     ELSE /\ StartFetchStep
          /\ \E gnark_groth16 \in GnarkProofs :
               ag_out' = MembershipProver_prove(
                           load_sp1_proof_and_public_values(ag_in.file).value, f_run',
                           gnark_groth16)
  /\ UNCHANGED <<ag_in, CoreVars, VerifyVars, MerkleVars, MembershipVars, ProverVars>>

\* the call goes on when it is woken: a response comes, the join is polled,
\* or the block comes, after which the membership proof is generated and
\* the two proofs are aggregated without another await
ProveMembership ==
  /\ ag_in.kind = "prover"
  /\ ~ag_out.done
  /\ f_run.phase \in {"joining", "block"}
  /\ \/ \E i \in 1..MaxKeys, kind \in MembershipAnswers : RespondStep(i, kind)
     \/ PollJoinStep
     \/ \E block \in BlockAnswers : BlockFetchedStep(block)
  /\ \E gnark_groth16 \in GnarkProofs :
       ag_out' = MembershipProver_prove(ag_out.consensus_proof, f_run', gnark_groth16)
  /\ UNCHANGED <<ag_in, CoreVars, VerifyVars, MerkleVars, MembershipVars, ProverVars>>

\* while the call waits, a consensus prover writes the file of the height
ConsensusProofWritten ==
  /\ ag_in.kind = "prover"
  /\ ~ag_out.done
  /\ f_run.phase \in {"joining", "block"}
  /\ ag_in.file # OtherRootFile
  /\ ag_in' = [ag_in EXCEPT !.file = OtherRootFile]
  /\ UNCHANGED <<ag_out, CoreVars, HostVars, MerkleVars, MembershipVars, ProverVars>>

AggregationNext ==
  \/ RunAggregation
  \/ StartProveMembership
  \/ ProveMembership
  \/ ConsensusProofWritten

SpecAggregation == AggregationInit /\ [][AggregationNext]_vars

ProgramRan == ag_out.done /\ ag_in.kind = "program"

ProverRan == ag_out.done /\ ag_in.kind = "prover"

\* ---------------------------------------------------------------------
\* C15: the aggregation program completes only if, in this order, the
\* backend verified the consensus proof against (consensus_vkey_u32_hash,
\* SHA-256 of consensus_public_input), then the membership proof against
\* (membership_vkey_u32_hash, SHA-256 of membership_public_input), then both
\* blobs decoded into records, then the two app_hash fields were found
\* equal; two decoded records with different app_hash abort the run.
\* ---------------------------------------------------------------------
C15_AggregationOrder ==
  ProgramRan =>
    LET r   == ag_out.result
        in  == ag_in.input
        ev  == r.events
        cd  == decode_TendermintOutput(in.consensus_public_input)
        md  == decode_MembershipOutput(in.membership_public_input)
    IN  /\ r.outcome = "completed" =>
             /\ ev = <<"read_input", "verify_consensus_proof", "verify_membership_proof",
                       "decode_consensus", "decode_membership", "assert_app_hash">>
             /\ r.verify_args =
                  << <<in.consensus_vkey_u32_hash, sha256_hash(in.consensus_public_input)>>,
                     <<in.membership_vkey_u32_hash, sha256_hash(in.membership_public_input)>> >>
             /\ \A k \in 1..2 :
                  \E q \in ag_in.proofs :
                    q.vkey = r.verify_args[k][1] /\ q.digest = r.verify_args[k][2]
             /\ cd # <<>> /\ md # <<>>
             /\ r.decoded = cd \o md
             /\ cd[1].app_hash = md[1].app_hash
        /\ (cd # <<>> /\ md # <<>> /\ cd[1].app_hash # md[1].app_hash) =>
             r.outcome = "panicked"
        /\ r.public_values = <<>>

C15_Witness ==
  /\ ProgramRan
  /\ ag_out.result.outcome = "completed"
  /\ Len(ag_out.result.decoded) = 2
  /\ ag_out.result.decoded[1].app_hash = ag_out.result.decoded[2].app_hash
  /\ Len(ag_out.result.decoded[2].kv_pairs) = 1

\* a run that decoded two records with different roots and aborted
C15_MismatchAborts ==
  /\ ProgramRan
  /\ ag_out.result.panic_at = "assert_app_hash"
  /\ Len(ag_out.result.decoded) = 2
  /\ ag_out.result.decoded[1].app_hash = AppHash
  /\ ag_out.result.decoded[2].app_hash = OtherAppHash

\* ---------------------------------------------------------------------
\* C16: when the consensus output and the membership output carry
\* different app_hash values, MembershipProver::prove fails before the
\* backend is asked for the Groth16 proof.
\* ---------------------------------------------------------------------
RootsDiffer ==
  /\ ProverRan
  /\ ag_out.consensus_proof # <<>>
  /\ f_run.result.kind = "Ok"
  /\ decode_TendermintOutput(ag_out.consensus_proof[1].public_values) # <<>>
  /\ decode_TendermintOutput(ag_out.consensus_proof[1].public_values)[1].app_hash
       # f_run.result.input[1].app_hash

C16_FailsBeforeBackend ==
  RootsDiffer =>
    /\ ag_out.result.result # "Ok"
    /\ \A k \in 1..Len(ag_out.result.events) :
         ag_out.result.events[k] # "prove_groth16"

\* what the code does hold to: no Groth16 proof comes out of differing roots
C16_NoProofOnMismatch ==
  RootsDiffer => ag_out.result.result # "Ok" /\ ag_out.result.groth16 = <<>>

C16_MismatchReachesBackend ==
  /\ RootsDiffer
  /\ ag_out.result.error = "GenerateProof"
  /\ ag_out.result.guest # <<>>
  /\ ag_out.result.guest[1].panic_at = "assert_app_hash"

\* ---------------------------------------------------------------------
\* service/src/provers/babylon.rs: ConsensusProver
\* ---------------------------------------------------------------------
\* Height::value of a height below 2^31
height_value(height) ==
  ((height[5] % 128) * 256 + height[6]) * 65536 + height[7] * 256 + height[8]

\* block_height as u32: the low four digits of the u64
as_u32(block_height) == SubSeq(block_height, 5, 8)

\* Height::from(u32), and Height::value as u64
Height_from(height) == Zeros(4) \o height

DecimalDigits == <<"0", "1", "2", "3", "4", "5", "6", "7", "8", "9">>

RECURSIVE format_digits(_)
\* the decimal digits of a number above 0, the most significant first
format_digits(x) ==
  IF x = Zeros(Len(x)) THEN <<>>
  ELSE Append(format_digits(UDivSmall(x, 10)), DecimalDigits[UModSmall(x, 10) + 1])

\* format!("{block_height}")
format_u64(x) == IF x = Zeros(Len(x)) THEN <<"0">> ELSE format_digits(x)

\* consensus_proof_path.join(format!("{block_height}.bin"))
proof_file_path(block_height) ==
  <<"consensus_proof_path/">> \o format_u64(block_height) \o <<".bin">>

\* the file at a path of the directory: <<>> when there is none
file_at(fs, path) == IF path \in DOMAIN fs THEN fs[path] ELSE <<>>

\* the directory with the file at the path created or replaced
write_file(fs, path, file) ==
  [p \in DOMAIN fs \cup {path} |-> IF p = path THEN file ELSE fs[p]]

\* target_height - self.initial_height - 1 on u64: an underflow panics
\* with overflow checks and wraps without
proving_block_index(initial_height, target_height, overflow_checks) ==
  IF ULe(target_height, initial_height) /\ overflow_checks
    THEN [panic |-> TRUE, index |-> <<>>]
  ELSE [panic |-> FALSE,
        index |-> USubWrap(USubWrap(target_height, initial_height), Num(1, 8))]

\* what one call of prove did: the calls made in order, Ok / Err / Panic,
\* the error variant, the parent file it read, the directory afterwards
ProveOutcome(steps, result, error, index, parent, guest, fs) ==
  [steps |-> steps, result |-> result, error |-> error, index |-> index,
   parent |-> parent, guest |-> guest, files |-> fs]

\* generate_compressed_proof once the program has run in the backend: a
\* run that panicked is the GenerateProof error, a run that committed
\* gives a compressed proof of its public values
generate_compressed_proof(fs, steps, index, parent, guest) ==
  IF guest.outcome # "committed"
    THEN ProveOutcome(Append(steps, "generate"), "Err", "GenerateProof", index, parent,
                      <<guest>>, fs)
  ELSE ProveOutcome(Append(steps, "generate"), "Generated", "", index, parent,
                    <<guest>>, fs)

\* mutant: the proof file is written whatever generation returned
save_generated_always(generated, path, save) ==
  [generated EXCEPT
     !.steps = Append(@, "save"), !.result = "Ok", !.error = "",
     !.files = write_file(@, path, << ProofFile(TRUE, "compressed", ConsensusVKey, <<>>) >>)]

\* the rest of generate_and_save_compressed_proof: `?` returns the error
\* of the generation; proof.save creates the file at the path, replacing
\* what was there, and writes the proof; a save that fails at the creation
\* leaves the directory as it was, one that fails while writing leaves a
\* cut file behind
save_generated(generated, path, save) ==
  IF generated.result # "Generated" THEN generated
  ELSE IF save = "create_fails"
    THEN [generated EXCEPT !.steps = Append(@, "save"), !.result = "Err",
                           !.error = "SaveProof"]
  ELSE IF save = "write_fails"
    THEN [generated EXCEPT
            !.steps = Append(@, "save"), !.result = "Err", !.error = "SaveProof",
            !.files = write_file(@, path,
                                 << ProofFile(FALSE, "compressed", ConsensusVKey, <<>>) >>)]
  ELSE [generated EXCEPT
          !.steps = Append(@, "save"), !.result = "Ok",
          !.files = write_file(@, path,
                               << ProofFile(TRUE, "compressed", ConsensusVKey,
                                            commit_TendermintOutput(
                                              generated.guest[1].output[1])) >>)]

\* prove_from_blocks from the app_hash of the target header to the
\* generation: an app_hash or a header hash that is not 32 bytes is an
\* error; `?` returns the error of serde_cbor::to_vec on the circuit input
\* before anything is generated; else the program runs with the parent
\* proof, if any, written to its stdin
prove_step(fs, steps, index, parent_public_input, parent, target_block, trusted_block, to_vec) ==
  IF Len(target_block.app_hash) # 32 \/ Len(target_block.hash) # 32
    THEN ProveOutcome(steps, "Err", "InvalidTendermintBlockHash", index, parent, <<>>, fs)
  ELSE IF to_vec # "Ok"
    THEN ProveOutcome(Append(steps, "to_vec"), "Err", "SerdeCbor", index, parent, <<>>, fs)
  ELSE generate_compressed_proof(
    fs, Append(steps, "to_vec"), index, parent,
    ConsensusMain(
      ConsensusInput(TRUE, index, ConsensusVKey, parent_public_input,
                     VerifierPublicInput(parent_public_input.compressed_block_public_input,
                                         target_block.app_hash, target_block.height,
                                         target_block.hash),
                     trusted_block, target_block),
      { [vkey |-> parent[k].sp1_vk_digest,
         digest |-> sha256_hash(parent[k].public_values)] : k \in 1..Len(parent) }))

\* the else branch of `if proving_block_index == 0`: the parent proof is
\* loaded from the path of the height below
prove_with_parent(fs, steps, index, loaded, target_block, trusted_block, to_vec) ==
  IF loaded.err # ""
    THEN ProveOutcome(Append(steps, "load_parent"), "Err", loaded.err, index,
                      <<>>, <<>>, fs)
  ELSE IF decode_TendermintOutput(loaded.value[1].public_values) = <<>>
    THEN ProveOutcome(Append(steps, "load_parent"), "Panic",
                      "public_values.read", index, loaded.value, <<>>, fs)
  ELSE prove_step(fs, Append(steps, "load_parent"), index,
                  decode_TendermintOutput(loaded.value[1].public_values)[1],
                  loaded.value, target_block, trusted_block, to_vec)

prove_from_index(fs, steps, idx, target_height, target_block, trusted_block, to_vec) ==
  IF idx.panic
    THEN ProveOutcome(steps, "Panic", "subtract with overflow", <<>>, <<>>, <<>>, fs)
  ELSE IF idx.index = Zeros(8)
    THEN prove_step(fs, steps, idx.index, TendermintOutput_default,
                    <<>>, target_block, trusted_block, to_vec)
  ELSE prove_with_parent(
         fs, steps, idx.index,
         load_compressed_proof(
           file_at(fs, proof_file_path(USubWrap(target_height, Num(1, 8))))),
         target_block, trusted_block, to_vec)

\* prove_from_blocks up to the generation of the proof: target_height is
\* the height written in the target block
prove_from_blocks_generate(initial_height, fs, steps, target_block, trusted_block, overflow_checks, to_vec) ==
  prove_from_index(fs, steps,
                   proving_block_index(initial_height, target_block.height,
                                       overflow_checks),
                   target_block.height, target_block, trusted_block, to_vec)

\* request n of fetch_light_block(block_height): the commit and the
\* validators of `block_height as u32`, the validators of the height above
\* (the heights of the sample chain lie far below 2^32 - 1, where the
\* addition overflows)
fetch_request(block_height, n) ==
  [call |-> IF n = 1 THEN "commit" ELSE "validators",
   height |-> Height_from(IF n = 3 THEN UAddWrap(as_u32(block_height), Num(1, 4))
                          ELSE as_u32(block_height))]

\* the LightBlock fetch_light_block builds of the three responses
fetch_light_block(commit, validators, next_validators) ==
  LightBlock(commit.signed_header.height, commit.signed_header.hash,
             commit.signed_header.app_hash, commit.signed_header.next_validators_hash,
             next_validators.validators, commit.signed_header.commit,
             commit.signed_header.time)

\* the height prove fetches with request `awaiting` of its six: the block
\* of block_height first, then the block below
fetched_height(block_height, awaiting) ==
  IF awaiting <= 3 THEN block_height ELSE USubWrap(block_height, Num(1, 8))

\* a call of prove between two of its awaits: the prover it runs on, its
\* argument, the number of the request it waits for, the responses it got
ProveTask(initial_height, block_height, awaiting, responses, steps) ==
  [initial_height |-> initial_height, block_height |-> block_height,
   awaiting |-> awaiting, responses |-> responses, steps |-> steps]

\* ConsensusProver::prove from the last response on: the blocks are built
\* and prove_from_blocks runs up to the generation
ConsensusProver_generate(task, last, fs, overflow_checks, to_vec) ==
  prove_from_blocks_generate(
    task.initial_height, fs, Append(task.steps, "fetch_light_block"),
    fetch_light_block(task.responses[1], task.responses[2], task.responses[3]),
    fetch_light_block(task.responses[4], task.responses[5], last),
    overflow_checks, to_vec)

\* ConsensusProver::prove: the proof generated is saved at the path of
\* the height written in the target block
ConsensusProver_prove(generated, target_height, save) ==
  save_generated(generated, proof_file_path(target_height), save)

\* ---------------------------------------------------------------------
\* The prover service on a proof directory
\* ---------------------------------------------------------------------
\* the highest height proved
MaxHeight == 12

\* the most calls of prove in flight, and the most calls made: on an empty
\* directory with the sound node and one call at a time, and elsewhere
MaxTasks == 2

MaxCalls == 3

MaxShortCalls == 2

\* the heights prove is called with: below 2, the two above the initial
\* height, and one that `as u32` cuts to 12
ProveHeights ==
  { Num(1, 8), <<0, 0, 0, 1, 0, 0, 0, MaxHeight>> }
    \cup { Num(h, 8) : h \in (InitialHeight + 1)..MaxHeight }

\* the initial heights a prover is constructed with
InitialHeights == { Num(InitialHeight, 8), Num(InitialHeight + 1, 8) }

SoundNode == [kind |-> "sound", height |-> Zeros(8)]

\* the nodes the prover asks: one that serves the sample chain, and ones
\* that serve for one height a header without a valid commit, the header
\* of the height above, or a header with an app_hash of 31 bytes
Nodes ==
  { SoundNode }
    \cup { [kind |-> kind, height |-> Num(h, 8)] :
             kind \in { "unsigned", "other_height", "short_app_hash" },
             h \in (InitialHeight + 1)..MaxHeight }

\* the signed header the node serves for a height
NodeHeader(node, height) ==
  LET k     == height_value(height) - InitialHeight
      kind  == IF height = node.height THEN node.kind ELSE "sound"
      block == IF kind = "other_height" THEN ChainBlock(k + 1) ELSE ChainBlock(k)
  IN  [height |-> block.height, hash |-> block.hash,
       app_hash |-> IF kind = "short_app_hash" THEN SubSeq(block.app_hash, 1, 31)
                    ELSE block.app_hash,
       next_validators_hash |-> block.next_validators_hash,
       commit |-> IF kind = "unsigned" THEN "none" ELSE block.commit,
       time |-> block.time]

\* the response to a request: an error of the transport, or what the node
\* serves; the validator set of a height is held by its hash
NodeResponse(node, request, error) ==
  IF error THEN [error |-> TRUE]
  ELSE IF request.call = "commit"
    THEN [error |-> FALSE, signed_header |-> NodeHeader(node, request.height)]
  ELSE [error |-> FALSE,
        validators |-> Digest(120 + height_value(request.height) - 1 - InitialHeight)]

\* how serde_cbor::to_vec can end on a circuit input: the bytes, or the
\* error of a Serialize impl of the types of the input
ToVecOutcomes == { "Ok", "Err" }

\* how proof.save can end once a proof was generated
SaveOutcomes(generated) ==
  IF generated.result = "Generated" THEN { "saved", "create_fails", "write_fails" }
  ELSE { "not_reached" }

\* files found in the directory before the service runs: none, or at the
\* lowest proved height a proof of another mode or a compressed proof made
\* under another vkey
SeedFiles ==
  { <<>>,
    << ProofFile(TRUE, "core", ConsensusVKey,
                 commit_TendermintOutput(ForgedOutput)) >>,
    << ProofFile(TRUE, "compressed", OtherVKey,
                 commit_TendermintOutput(ForgedOutput)) >> }

\* the runs: calls one after the other on each seeded directory and with
\* each node, and overlapping calls on an empty directory with the sound node
Scenarios ==
  { [seed |-> seed, node |-> SoundNode, max_tasks |-> 1,
     max_calls |-> IF seed = <<>> THEN MaxCalls ELSE MaxShortCalls] : seed \in SeedFiles }
    \cup { [seed |-> <<>>, node |-> node, max_tasks |-> 1, max_calls |-> MaxShortCalls] :
             node \in Nodes \ {SoundNode} }
    \cup { [seed |-> <<>>, node |-> SoundNode, max_tasks |-> MaxTasks,
            max_calls |-> MaxShortCalls] }

ProverInit ==
  /\ CoreIdle
  /\ HostIdle
  /\ MerkleIdle
  /\ MembershipIdle
  /\ AggregationIdle
  /\ \E scenario \in Scenarios, ih \in InitialHeights :
       /\ files = IF scenario.seed = <<>> THEN <<>>
                  ELSE write_file(<<>>, proof_file_path(Num(InitialHeight + 1, 8)),
                                  scenario.seed)
       /\ prover = [initial_height |-> ih, node |-> scenario.node, calls |-> 0,
                    max_tasks |-> scenario.max_tasks, max_calls |-> scenario.max_calls]
  /\ call = NoCall
  /\ tasks = EmptyBag

\* ConsensusProver::new on the same directory
NewProver ==
  /\ \E ih \in InitialHeights :
       /\ ih # prover.initial_height
       /\ prover' = [prover EXCEPT !.initial_height = ih]
  /\ call' = [op |-> "new"]
  /\ UNCHANGED <<files, tasks, CoreVars, HostVars, MerkleVars, MembershipVars,
                 AggregationVars>>

\* the builds that can differ on this call: the overflow checks matter
\* only when the index subtraction underflows
Builds(initial_height, target_height) ==
  IF ULe(target_height, initial_height) THEN BOOLEAN ELSE {FALSE}

\* the height whose path a call is about: the height written in the target
\* block once it was fetched, the height asked for before
TargetHeightOf(block_height, responses) ==
  IF Len(responses) >= 1 THEN responses[1].signed_header.height
  ELSE Height_from(as_u32(block_height))

\* the directory and the record of a call of prove that ended
RecordProve(initial_height, block_height, target_height, done) ==
  /\ files' = done.files
  /\ call' = [op |-> "prove", initial_height |-> initial_height,
              block_height |-> block_height, target_height |-> target_height,
              parent_before |->
                file_at(files, proof_file_path(USubWrap(target_height, Num(1, 8)))),
              target_before |-> file_at(files, proof_file_path(target_height)),
              steps |-> done.steps, result |-> done.result, error |-> done.error,
              index |-> done.index, parent |-> done.parent,
              generated |-> done.guest # <<>> /\ done.guest[1].outcome = "committed"]

\* ConsensusProver::prove(block_height) on the prover at hand, or on a
\* clone of it, up to its first await: a height below 2 is refused, else the
\* commit of the height is asked for
StartProve ==
  /\ prover.calls < prover.max_calls
  /\ BagCardinality(tasks) < prover.max_tasks
  /\ prover' = [prover EXCEPT !.calls = @ + 1]
  /\ \E block_height \in ProveHeights :
       IF ULt(block_height, Num(2, 8))
         THEN /\ RecordProve(prover.initial_height, block_height, block_height,
                             ProveOutcome(<<>>, "Err", "BlockHeightTooLowForTendermint",
                                          <<>>, <<>>, <<>>, files))
              /\ UNCHANGED tasks
       ELSE /\ tasks' = tasks (+) SetToBag({ ProveTask(prover.initial_height,
                                                        block_height, 1, <<>>, <<>>) })
            /\ call' = [op |-> "start"]
            /\ UNCHANGED files
  /\ UNCHANGED <<CoreVars, HostVars, MerkleVars, MembershipVars, AggregationVars>>

\* the call once the generation is over: the save, then the record
ProveSave(task, target_height, generated) ==
  \E save \in SaveOutcomes(generated) :
    /\ RecordProve(task.initial_height, task.block_height, target_height,
                   ConsensusProver_prove(generated, target_height, save))
    /\ tasks' = tasks (-) SetToBag({task})

\* the call ends before prove_from_blocks
ProveEnds(task, responses, steps, result, error) ==
  /\ RecordProve(task.initial_height, task.block_height,
                 TargetHeightOf(task.block_height, responses),
                 ProveOutcome(steps, result, error, <<>>, <<>>, <<>>, files))
  /\ tasks' = tasks (-) SetToBag({task})

\* the call goes on to its next await
ProveAwaits(task, answer) ==
  /\ tasks' = (tasks (-) SetToBag({task}))
                (+) SetToBag({ ProveTask(task.initial_height, task.block_height,
                                         task.awaiting + 1,
                                         Append(task.responses, answer),
                                         IF task.awaiting = 3
                                           THEN Append(task.steps, "fetch_light_block")
                                         ELSE task.steps) })
  /\ call' = [op |-> "response"]
  /\ UNCHANGED files

\* the response to the request a call waits for comes and the call runs to
\* its next await or to its end: an error of the transport ends it; after
\* the sixth response prove_from_blocks runs as a whole
RpcAnswered(task, error) ==
  /\ task \in BagToSet(tasks)
  /\ LET height == fetched_height(task.block_height, task.awaiting)
         answer == NodeResponse(prover.node,
                                fetch_request(height, ((task.awaiting - 1) % 3) + 1),
                                error)
     IN  IF answer.error
           THEN ProveEnds(task, task.responses, Append(task.steps, "fetch_light_block"),
                          "Err", "Rpc")
         ELSE IF task.awaiting = 6
           THEN \E overflow_checks \in Builds(task.initial_height,
                                              task.responses[1].signed_header.height),
                   to_vec \in ToVecOutcomes :
                  ProveSave(task, task.responses[1].signed_header.height,
                            ConsensusProver_generate(task, answer, files, overflow_checks,
                                                     to_vec))
         ELSE ProveAwaits(task, answer)
  /\ UNCHANGED <<prover, CoreVars, HostVars, MerkleVars, MembershipVars, AggregationVars>>

ProverNext ==
  \/ NewProver
  \/ StartProve
  \/ \E task \in BagToSet(tasks), error \in BOOLEAN : RpcAnswered(task, error)

SpecProver == ProverInit /\ [][ProverNext]_vars

ProveCalled == call.op = "prove"

\* position of the first occurrence of a step in the steps of the call
StepAt(e) == Pos(call.steps, e)

\* the file now at the path of the target height of the call
TargetNow == file_at(files, proof_file_path(call.target_height))

\* the target height of the call is the initial height plus n
TargetAboveInitial(n) == call.target_height = UAddWrap(call.initial_height, Num(n, 8))

\* target_height - initial_height - 1 of the call, in the integers, is
\* above 0
StepIndexPositive ==
  /\ ULt(call.initial_height, call.target_height)
  /\ ~TargetAboveInitial(1)

\* a file that loads as a compressed proof
LoadsCompressed(file) == file # <<>> /\ file[1].loads /\ file[1].kind = "compressed"

\* ---------------------------------------------------------------------
\* C18: for a target height h with h - initial_height - 1 > 0, prove(h)
\* starts the generation only if the file of height h - 1 is present and
\* loads as a compressed proof; otherwise it returns an error and leaves the
\* path of h as it was. The file of h is written only after the generation
\* for h succeeded.
\* ---------------------------------------------------------------------
C18_SequentialProving ==
  ProveCalled =>
    /\ StepIndexPositive =>
         /\ StepAt("generate") > 0 =>
              /\ LoadsCompressed(call.parent_before)
              /\ call.parent = call.parent_before
              /\ 0 < StepAt("load_parent") /\ StepAt("load_parent") < StepAt("generate")
         /\ ~LoadsCompressed(call.parent_before) =>
              /\ call.result = "Err"
              /\ StepAt("generate") = 0
              /\ TargetNow = call.target_before
    /\ TargetNow # call.target_before =>
         /\ call.generated
         /\ 0 < StepAt("generate") /\ StepAt("generate") < StepAt("save")
    /\ StepAt("save") > 0 => call.generated

C18_Witness ==
  /\ ProveCalled
  /\ TargetAboveInitial(2)
  /\ LoadsCompressed(call.parent_before)
  /\ call.parent_before[1].sp1_vk_digest = ConsensusVKey
  /\ call.result = "Ok"
  /\ call.target_before = <<>>
  /\ LoadsCompressed(TargetNow)

\* the other case: no parent file, an error and nothing written
C18_RefusedWithoutParent ==
  /\ ProveCalled
  /\ TargetAboveInitial(2)
  /\ call.parent_before = <<>>
  /\ call.result = "Err"
  /\ TargetNow = <<>>

\* ---------------------------------------------------------------------
\* C19: loading a persisted proof checks that the file exists before it
\* loads it, and an absent file is reported by an error that is not the
\* generic I/O variant ProverError::IO.
\* ---------------------------------------------------------------------
ParentAbsent ==
  /\ ProveCalled
  /\ StepAt("load_parent") > 0
  /\ call.parent_before = <<>>

C19_AbsentIsDistinctError ==
  ParentAbsent => call.result = "Err" /\ call.error # "IO"

\* what the code does: the absent file is the IO variant, a file that
\* does not load is LoadProof
C19_AbsentIsIO ==
  /\ ParentAbsent => call.result = "Err" /\ call.error = "IO"
  /\ (ProveCalled /\ StepAt("load_parent") > 0 /\ call.parent_before # <<>>
        /\ ~call.parent_before[1].loads) => call.error = "LoadProof"

C19_AbsentReached == ParentAbsent /\ call.error = "IO"

\* ---------------------------------------------------------------------
\* C20: once a proof file for a height has been written, no later prover
\* operation changes or replaces what is stored for that height.
\* ---------------------------------------------------------------------
\* a consensus proof the prover saved
WrittenProof(file) == LoadsCompressed(file) /\ file[1].sp1_vk_digest = ConsensusVKey

C20_AppendOnly ==
  (ProveCalled /\ WrittenProof(call.target_before)) => TargetNow = call.target_before

\* a saved proof replaced by a proof of another content
C20_Replaced ==
  /\ ProveCalled
  /\ WrittenProof(call.target_before)
  /\ WrittenProof(TargetNow)
  /\ TargetNow # call.target_before

\* a saved proof replaced by a cut file
C20_Cut ==
  /\ ProveCalled
  /\ WrittenProof(call.target_before)
  /\ ~TargetNow[1].loads

\* ---------------------------------------------------------------------
\* C26: in every step of the consensus program that commits an output, the
\* public input folded into the accumulator describes the verified header:
\* its target_header_hash, app_hash and target_height are the hash, app_hash
\* and height of the untrusted header, which the output carries.
\* ---------------------------------------------------------------------
C26_PublicInputIsVerifiedHeader ==
  RunCommitted =>
    LET cpi == run.result.input.current_public_input
        out == run.result.output[1]
    IN  /\ cpi.target_header_hash = out.target_header_hash
        /\ cpi.app_hash = out.app_hash
        /\ cpi.target_height = out.target_height

\* what the program does hold to: the output describes the untrusted header
\* of the witness, and the accumulator folds the hash of the public input
\* as it was given
C26_OutputIsWitnessHeader ==
  RunCommitted =>
    LET ub  == run.result.input.witness.untrusted_block
        out == run.result.output[1]
    IN  /\ out.target_header_hash = ub.hash
        /\ out.app_hash = ub.app_hash
        /\ out.target_height = ub.height
        /\ run.result.current_hash
             = VerifierPublicInput_compute_hash(run.result.input.current_public_input)

C26_OtherHeaderFolded ==
  /\ RunCommitted
  /\ run.result.input.current_public_input.target_header_hash = Digest(196)
  /\ run.result.output[1].target_header_hash
       # run.result.input.current_public_input.target_header_hash

\* ---------------------------------------------------------------------
\* C27: in every step with proving_block_index > 0 that commits an output,
\* the trusted header of the light-client verification is the header the
\* parent step proved: the output's trusted_header_hash and trusted_height
\* are the parent's target_header_hash and target_height.
\* ---------------------------------------------------------------------
C27_TrustedIsParentTarget ==
  (RunCommitted /\ run.result.input.proving_block_index # Zeros(8)) =>
    /\ run.result.output[1].trusted_header_hash
         = run.result.input.parent_public_input.target_header_hash
    /\ run.result.output[1].trusted_height
         = run.result.input.parent_public_input.target_height

C27_UnlinkedStep ==
  /\ RunCommitted
  /\ run.result.input.proving_block_index = Num(1, 8)
  /\ run.result.parent_verified
  /\ run.result.output[1].trusted_height
       # run.result.input.parent_public_input.target_height

\* a call of prove that got as far as the index subtraction
IndexComputed ==
  /\ ProveCalled
  /\ ULe(Num(2, 8), call.block_height)
  /\ call.index # <<>> \/ call.error = "subtract with overflow"

\* target_height - initial_height - 1 of the call where the integers have
\* it in the range of u64
IndexOfCall == USubWrap(USubWrap(call.target_height, call.initial_height), Num(1, 8))

\* ---------------------------------------------------------------------
\* C28: for every initial_height and every block_height >= 2 that prove
\* accepts, proving_block_index = target_height - initial_height - 1 is
\* computed without u64 underflow, is not negative, and is 0 exactly for the
\* first block after initial_height; a block_height not above initial_height
\* gives neither a wrapped index nor a panic.
\* ---------------------------------------------------------------------
C28_IndexWithoutUnderflow ==
  IndexComputed =>
    /\ call.error # "subtract with overflow"
    /\ ULt(call.initial_height, call.target_height)
    /\ call.index = IndexOfCall
    /\ call.index = Zeros(8) <=> TargetAboveInitial(1)

\* what the code does hold to: above initial_height the index is
\* block_height - initial_height - 1
C28_IndexAboveInitial ==
  (IndexComputed /\ ULt(call.initial_height, call.target_height)) =>
    /\ call.index = IndexOfCall
    /\ call.index = Zeros(8) <=> TargetAboveInitial(1)

\* the subtraction underflowed and the build panicked
C28_UnderflowPanics ==
  /\ IndexComputed
  /\ ULe(call.target_height, call.initial_height)
  /\ call.result = "Panic"
  /\ call.error = "subtract with overflow"

\* the subtraction underflowed and the build went on with 2^64 - 1
C28_UnderflowWraps ==
  /\ IndexComputed
  /\ ULe(call.target_height, call.initial_height)
  /\ call.index = [i \in 1..8 |-> 255]
  /\ StepAt("load_parent") > 0

\* the last header of the epoch is older than the retarget header
ElapsedNegative ==
  /\ t_out.done
  /\ ULt(from_le_bytes(t_in.last_epoch_end_block.time),
         from_le_bytes(t_in.last_epoch_begin_block.time))

\* old_target * elapsed, the elapsed time taken modulo 2^32, as a wide value
WideProduct ==
  UMulWide(bits_to_target(t_in.last_epoch_begin_block.bits),
           USubWrap(from_le_bytes(t_in.last_epoch_end_block.time),
                    from_le_bytes(t_in.last_epoch_begin_block.time)))

\* ---------------------------------------------------------------------
\* C29: prev.time - retarget.time on u32 never underflows: when prev.time is
\* below retarget.time, assert_new_target_bits rejects the header by its own
\* assertion, not by an overflow panic and not after taking the difference
\* modulo 2^32 as the elapsed time; and old_target * elapsed never exceeds
\* 256 bits without the header being rejected.
\* ---------------------------------------------------------------------
C29_ElapsedNeverUnderflows ==
  /\ ElapsedNegative =>
       /\ t_out.result = "new_target_bits_not_matched"
       /\ t_out.new_target = <<>>
  /\ (t_out.done /\ SubSeq(WideProduct, 1, 4) # Zeros(4)) => t_out.result # "ok"

\* what the code does hold to: a product above 256 bits ends the call with
\* the panic of the unwrap
C29_ProductOverflowPanics ==
  (t_out.done /\ t_out.result # "panic_sub_overflow"
     /\ SubSeq(WideProduct, 1, 4) # Zeros(4)) => t_out.result = "panic_mul_overflow"

\* the build with overflow checks panics at the subtraction
C29_SubtractionPanics ==
  /\ ElapsedNegative
  /\ t_in.overflow_checks
  /\ t_out.result = "panic_sub_overflow"

\* the build without them computes a target from the difference modulo 2^32
C29_WrappedElapsedUsed ==
  /\ ElapsedNegative
  /\ ~t_in.overflow_checks
  /\ t_out.new_target # <<>>
  /\ <<0, 0, 0, 0>> \o t_out.new_target[1] = UDivSmall(WideProduct, 1209600)

\* runs of the aggregation program that complete: on the root AppHash with
\* one record, on the root OtherAppHash with the same record, on the root
\* AppHash with no record
CompletedRuns ==
  { AggregationMain(x.input, x.proofs) :
      x \in { ProgramSample(commit_TendermintOutput(SampleConsensusOutput(AppHash)),
                            commit_MembershipOutput(MembershipOutput(AppHash, <<SampleKV>>)),
                            "none"),
              ProgramSample(commit_TendermintOutput(SampleConsensusOutput(OtherAppHash)),
                            commit_MembershipOutput(
                              MembershipOutput(OtherAppHash, <<SampleKV>>)),
                            "none"),
              ProgramSample(commit_TendermintOutput(SampleConsensusOutput(AppHash)),
                            commit_MembershipOutput(MembershipOutput(AppHash, <<>>)),
                            "none") } }

\* ---------------------------------------------------------------------
\* C30: the public values committed by the aggregation program determine
\* the state root, the verified header and the key-value records that were
\* checked: two completed runs over different app_hash values or different
\* key-value sets commit different public values.
\* ---------------------------------------------------------------------
C30_PublicValuesBind ==
  (ProgramRan /\ ag_out.result.outcome = "completed") =>
    \A other \in CompletedRuns :
      (other.outcome = "completed" /\ other.decoded # ag_out.result.decoded) =>
        other.public_values # ag_out.result.public_values

\* what the code does: no run commits anything, and the Groth16 proof the
\* service returns carries empty public values
C30_NothingCommitted ==
  /\ ProgramRan => ag_out.result.public_values = <<>>
  /\ (ProverRan /\ ag_out.result.result = "Ok") =>
       ag_out.result.groth16[1].public_values = <<>>

\* a completed run on one root whose public values are those of a
\* completed run on the other root
C30_SameValuesOtherRoot ==
  /\ ProgramRan
  /\ ag_out.result.outcome = "completed"
  /\ ag_out.result.decoded[1].app_hash = AppHash
  /\ \E other \in CompletedRuns :
       /\ other.outcome = "completed"
       /\ other.decoded[1].app_hash = OtherAppHash
       /\ other.public_values = ag_out.result.public_values

\* =====================================================================
\* service/src/provers.rs: Groth16Proof::verify
\* =====================================================================
\* what the pairing library finds in a proof: whether the bytes of A, B and C
\* are curve points, and what verify_proof answers on them
ArkFinds(a, b, c, verdict) == [a |-> a, b |-> b, c |-> c, verdict |-> verdict]

VerifyEnd(steps, kind, verdict, error) ==
  [steps |-> steps, kind |-> kind, verdict |-> verdict, error |-> error]

\* Groth16Proof::verify: the slices proof[..64], proof[64..192] and
\* proof[192..256] are taken by indexing, each before its point is read, and
\* the decoded digest is unwrapped
Groth16Proof_verify(self, ark) ==
  IF Len(self.proof) < 64
    THEN VerifyEnd(<<"vk", "a">>, "Panic", FALSE, "range end index 64 out of range")
  ELSE IF ~ark.a
    THEN VerifyEnd(<<"vk", "a">>, "Err", FALSE, "G1CompressionError")
  ELSE IF Len(self.proof) < 192
    THEN VerifyEnd(<<"vk", "a", "b">>, "Panic", FALSE,
                   "range end index 192 out of range")
  ELSE IF ~ark.b
    THEN VerifyEnd(<<"vk", "a", "b">>, "Err", FALSE, "G2CompressionError")
  ELSE IF Len(self.proof) < 256
    THEN VerifyEnd(<<"vk", "a", "b", "c">>, "Panic", FALSE,
                   "range end index 256 out of range")
  ELSE IF ~ark.c
    THEN VerifyEnd(<<"vk", "a", "b", "c">>, "Err", FALSE, "G1CompressionError")
  ELSE IF ~decode_sp1_vkey_hash(self.vkey).ok
    THEN VerifyEnd(<<"vk", "a", "b", "c", "vkey_hash">>, "Panic", FALSE,
                   "called unwrap on an Err value")
  ELSE IF ark.verdict = "error"
    THEN VerifyEnd(<<"vk", "a", "b", "c", "vkey_hash", "verify_proof">>, "Err", FALSE,
                   "VerifyGroth16Proof")
  ELSE VerifyEnd(<<"vk", "a", "b", "c", "vkey_hash", "verify_proof">>, "Ok",
                 ark.verdict = "true", "")

\* ---------------------------------------------------------------------
\* Samples and actions of the verification
\* ---------------------------------------------------------------------
\* lengths of the proof byte string, around the ends of A, B and C
ProofLengths == {0, 63, 64, 191, 192, 255, 256, 257}

ProofBytes(n) == [k \in 1..n |-> k % 256]

\* digest strings: the one bytes32 writes, the same in upper case digits,
\* without the "0x", with an odd number of digits, with a character that is
\* no digit, and with 31 bytes
VKeyTexts ==
  LET good == bytes32(Digest(41))
  IN  { good,
        [k \in 1..Len(good) |->
           IF k > 2 /\ hex_value(good[k]) > 9
             THEN UpperHexDigits[hex_value(good[k]) - 9] ELSE good[k]],
        SubSeq(good, 3, Len(good)),
        SubSeq(good, 1, Len(good) - 1),
        [good EXCEPT ![7] = "g"],
        SubSeq(good, 1, Len(good) - 2) }

VerifySamples ==
  { [self |-> Groth16Proof(ProofBytes(n), <<>>, text),
     ark |-> ArkFinds(a, b, c, verdict)] :
      n \in ProofLengths, text \in VKeyTexts, a \in BOOLEAN, b \in BOOLEAN,
      c \in BOOLEAN, verdict \in {"true", "false", "error"} }

VerifyInit ==
  /\ CoreIdle
  /\ MerkleIdle
  /\ MembershipIdle
  /\ AggregationIdle
  /\ ProverIdle
  /\ FetchIdle
  /\ v_in \in VerifySamples
  /\ v_out = [done |-> FALSE]

\* one call of verify on the proof at hand
Verify ==
  /\ ~v_out.done
  /\ v_out' = [done |-> TRUE, result |-> Groth16Proof_verify(v_in.self, v_in.ark)]
  /\ UNCHANGED <<v_in, CoreVars, MerkleVars, MembershipVars, AggregationVars,
                 ProverVars, FetchVars>>

VerifyNext == Verify

SpecVerify == VerifyInit /\ [][VerifyNext]_vars

\* ---------------------------------------------------------------------
\* C22: Groth16Proof::verify always ends with a result value, a boolean
\* verdict or a typed error: a proof shorter than the 256 bytes of
\* A(64) || B(128) || C(64), or a digest string that does not decode, gives
\* false or an error and never a panic.
\* ---------------------------------------------------------------------
C22_VerifyNeverPanics ==
  v_out.done => v_out.result.kind \in {"Ok", "Err"}

\* what the code does hold to: a proof of at least 256 bytes with a digest
\* that decodes ends with a verdict or a typed error, and the verdict is the
\* library's
C22_WellFormedEndsWithResult ==
  (v_out.done /\ Len(v_in.self.proof) >= 256 /\ decode_sp1_vkey_hash(v_in.self.vkey).ok) =>
    /\ v_out.result.kind \in {"Ok", "Err"}
    /\ v_out.result.kind = "Ok" =>
         /\ v_in.ark.a /\ v_in.ark.b /\ v_in.ark.c
         /\ v_out.result.verdict = (v_in.ark.verdict = "true")
    /\ v_out.result.kind = "Err" =>
         v_out.result.error \in
           {"G1CompressionError", "G2CompressionError", "VerifyGroth16Proof"}

\* a proof of 255 bytes whose points A and B are read ends in a panic
C22_ShortProofPanics ==
  /\ v_out.done
  /\ Len(v_in.self.proof) = 255
  /\ v_out.result.kind = "Panic"
  /\ v_out.result.steps = <<"vk", "a", "b", "c">>

\* a full proof with a digest string that does not decode ends in a panic
C22_BadDigestPanics ==
  /\ v_out.done
  /\ Len(v_in.self.proof) = 256
  /\ ~decode_sp1_vkey_hash(v_in.self.vkey).ok
  /\ v_out.result.kind = "Panic"
  /\ v_out.result.steps = <<"vk", "a", "b", "c", "vkey_hash">>

\* the entry the future of position i makes of the response it got
EntryOf(i) ==
  fetch_entry(f_in.key_paths[i],
              prove_storage_key_existence(
                f_in.key_paths[i], f_in.block_height,
                NodeAnswer(f_run.answers[i], f_in.key_paths[i], f_in.block_height)))

FetchStarted == f_run.phase \in {"joining", "block", "done"}

\* ---------------------------------------------------------------------
\* C21: in prepare_membership_input the fetches of the keys run
\* concurrently without shared state and are joined by position: under
\* every order of completion, entry i of merkle_proofs carries key_paths[i]
\* with the value and proof fetched for that key; the joined batch is
\* checked against the state root only after all fetches completed; and if
\* any single fetch fails no MembershipInput is produced.
\* ---------------------------------------------------------------------
C21_JoinedByPosition ==
  FetchStarted =>
    LET n == Len(f_in.key_paths)
    IN  /\ \A i \in 1..n :
             /\ f_run.slots[i] # <<>> =>
                  /\ f_run.answers[i] \in {"ok", "other_root"}
                  /\ f_run.slots[i] = EntryOf(i)
                  /\ f_run.slots[i][1][1].keys = f_in.key_paths[i]
                  /\ f_run.slots[i][1][1].value = NodeValue(f_in.key_paths[i])
                  /\ f_run.slots[i][1][2].keys = f_in.key_paths[i]
             /\ (i \in f_run.polled /\ f_run.failed[i] = "") => f_run.slots[i] # <<>>
        /\ \A e \in 1..Len(f_run.events) :
             f_run.events[e].ev \in {"block", "verify"} =>
               /\ Len(f_run.order) = n
               /\ f_run.polled = 1..n
               /\ \A i \in 1..n :
                    \E d \in 1..(e - 1) : f_run.events[d] = FetchEvent("response", i)
        /\ f_run.result.kind = "Ok" =>
             /\ Len(f_run.result.input[1].merkle_proofs) = n
             /\ \A i \in 1..n : f_run.result.input[1].merkle_proofs[i] = f_run.slots[i][1]
        /\ (\E i \in 1..n : \/ f_run.answers[i] \in FailingAnswers
                             \/ f_run.failed[i] # "") =>
             /\ f_run.phase \in {"joining", "done"}
             /\ f_run.phase = "done" => f_run.result.kind = "Err"
             /\ f_run.result.input = <<>>
        /\ f_run.result.input # <<>> => f_run.result.kind = "Ok"

\* three fetches completed in the order 3, 1, 2 and the input carries the
\* three keys in the order asked for
C21_Witness ==
  /\ f_run.phase = "done"
  /\ f_run.result.kind = "Ok"
  /\ f_run.order = <<3, 1, 2>>
  /\ f_in.key_paths = <<KeyPathA, KeyPathB, KeyPathC>>
  /\ \A i \in 1..3 : f_run.result.input[1].merkle_proofs[i][1].keys = f_in.key_paths[i]

\* the second fetch completed first, the first failed after it, and no
\* input was produced
\* a call joined by a FuturesOrdered holds the error of its last position
\* while positions before it wait for their responses
C21_LateErrorHeld ==
  /\ Len(f_in.key_paths) = BigKeys
  /\ f_run.phase = "joining"
  /\ f_run.failed[BigKeys] = "TendermintProofKeyMismatch"
  /\ Len(f_run.order) = BigKeys - 1

C21_FailedFetch ==
  /\ f_run.phase = "done"
  /\ f_run.order = <<2, 1>>
  /\ f_run.answers[2] = "ok"
  /\ f_run.answers[1] = "key"
  /\ f_run.result = FetchEnd("Err", "TendermintProofKeyMismatch", <<>>)

====
